---- MODULE Spec2Model ----
(***************************************************************************)
(* Tunnel multiplexer of the singleProxy gateway: the tunnel registry      *)
(* (persistent WebSocket transport and HTTP long-poll transport), the      *)
(* pending-request table and the public HTTP handler.                      *)
(*                                                                         *)
(* Every critical section of the Go code (a Lock ... Unlock pair that      *)
(* contains no blocking operation) is one action; the steps of a handler   *)
(* between two critical sections are separate actions, so that the         *)
(* goroutines interleave as they do in the program.                        *)
(***************************************************************************)
EXTENDS Integers, Sequences, FiniteSets, TLC

\* ------------------------------------------------------------------ bounds
\* WebSocket connections, public requests and agent frames of a run, and the
\* long-poll registrations and public requests of a run with both transports.
MaxConns == 2
MaxReqs == 2
MaxFrames == 2
MaxClients == 1
MixedReqs == 1
\* Public requests of a run with rate limiting switched on, and the
\* WebSocket connections of such a run when it has agents.
LimitedReqs == 3
LimitedConns == 1
\* Public requests and seconds of a run that follows the clock of the rate
\* limiters.
TimedReqs == 4
MaxSeconds == 2
\* Requests such a run handles at the same time.
TimedInFlight == 1
\* Long-poll registrations of a run in which an entry is replaced.
ReplacedClients == 2
\* Poll requests of a run that follows the poll handler step by step.
MaxPolls == 3
\* A run that fills the outbox of a long-poll client: the frames that wait
\* un-polled when it starts, and its public requests.
QueuedFrames == 8
OutboxReqs == 3
\* Sweeps of the long-poll reaper a run lasts.
MaxSweeps == 6
\* Keepalive periods a run of the persistent transport lasts, and the pongs
\* an agent may send in it.
MaxTicks == 8
MaxPongs == 2
\* Tunnels of that run, and the frames they carry.
TunnelConns == 1
TunnelFrames == 1
\* Connections the listener accepts, and the bytes their first read returns.
MaxSocks == 3
MaxPrefix == 2
\* Segments of a request path.
MaxSegments == 3
\* Bytes of a received frame, bytes of an encoded payload, and passes of a
\* frame through the codec.
MaxRaw == 10
MaxPayload == 2
MaxTrips == 2
\* Bytes peeked from a connection and bytes still in its socket, the size of
\* a read buffer, and the reads of a run.
PeekedLen == 3
SocketLen == 2
MaxBuf == 3
MaxReads == 4
\* Goroutines whose lock operations are followed.
LockThreads == 3

SetMax(S) == CHOOSE x \in S : \A y \in S : y <= x

MaxTasks == SetMax({MaxReqs, LimitedReqs, TimedReqs, OutboxReqs})
MaxIds == SetMax({MaxTasks, QueuedFrames + OutboxReqs})

Keys == {"alpha", "default"}
\* Values of the X-Tunnel-Key header: a key, or "" for a missing or empty one.
Headers == Keys \cup {""}
IPs == {"ip1", "ip2"}
Conns == 1..MaxConns
Tasks == 1..MaxTasks
ReqIds == 1..MaxIds
Clients == 1..SetMax({MaxClients, ReplacedClients})
Polls == 1..MaxPolls

\* ------------------------------------------------------- program constants
MSG_TYPE_HTTP_REQ == 1
MSG_TYPE_HTTP_RES == 2
MSG_TYPE_HTTP_RES_CHUNK == 3
PollChanCap == 10
StatusOK == 200
StatusBadGateway == 502
StatusServiceUnavailable == 503
StatusGatewayTimeout == 504
StatusTooManyRequests == 429
\* config.IPRateLimit and config.KeyRateLimit of a run with rate limiting on.
IPRateLimit == 1
KeyRateLimit == 1
\* Seconds: the wait of a poll, the period of the sweeper and the idle time
\* after which it removes a long-poll client.
PollWait == 30
SweepPeriod == 60
ClientIdle == 300
StatusNoContent == 204
StatusNotFound == 404
\* The length of a frame's header: 8 bytes of ID and 1 byte of Type.
HeaderLen == 9
\* The read deadline of a tunnel's reader, the period of the agent's
\* keepAlive ticker, the wait for the first bytes of a connection (seconds),
\* and the version byte of SOCKS5.
serverReadTimeout == 90
KeepAlivePeriod == 15
DetectTimeout == 5
SOCKS5Version == 5

\* ----------------------------------------------------------------- frames
\* Payload of a kind-2 frame as DeserializeHTTPResponse sees it: a malformed
\* head (ok = FALSE) or a status line with the body bytes that follow it.
HeadPayloads ==
  { [ok |-> TRUE, status |-> 200, body |-> <<>>],
    [ok |-> TRUE, status |-> 404, body |-> <<"x">>],
    [ok |-> FALSE, status |-> 0, body |-> <<>>] }

\* Payload of a kind-3 frame: the empty payload is the end-of-stream sentinel.
ChunkPayloads == { <<>>, <<"a">>, <<"b">> }

\* The frames an agent can send; the agent chooses the id freely among the
\* ids the requests of a run with agents can get.
AgentFrames ==
  [id : 1..MaxReqs, type : {MSG_TYPE_HTTP_RES}, payload : HeadPayloads]
    \cup [id : 1..MaxReqs, type : {MSG_TYPE_HTTP_RES_CHUNK}, payload : ChunkPayloads]

NoMsg == [id |-> 0, type |-> 0, payload |-> <<>>]

\* The kind-1 frame the public handler dispatches for request id.
RequestFrame(id) == [id |-> id, type |-> MSG_TYPE_HTTP_REQ, payload |-> <<>>]

VARIABLES
  clientConns,     \* SinglePortProxy.clientConns: key -> connection (0 = no entry)
  connState,       \* per WebSocket connection: "new", "open" or "closed"
  connKey,         \* the key a connection registered under
  rdPc,            \* clientReadLoop of a connection: "none", "read", "apply", "exited"
  rdMsg,           \* the message ReadMessage returned to that loop
  streamHandlers,  \* SinglePortProxy.streamHandlers: request id -> handler (0 = no entry)
  nextRequestID,   \* SinglePortProxy.nextRequestID
  req,             \* handlePublicHTTPRequest of each task: its locals and position
  done,            \* streamHandler.done of each task's handler: TRUE once closed
  writers,         \* httpResponseWriter of each task
  clients,         \* httpTunnelMgr.clients: key -> long-poll client (0 = no entry)
  pollChan,        \* httpTunnelClient.pollChan of each client
  chanClosed,      \* whether the client's channels have been closed
  nextClient,      \* number of long-poll clients created so far
  post,            \* handleHTTPTunnelResponse in progress: its locals and position
  frames,          \* number of frames the agents have sent
  panicked,        \* the process has died of a run-time panic
  limit,           \* the budgets of the run (fixed by the initial state)
  doneBy,          \* history: the statement that closed each handler's done
  replaced,        \* history: connections closed by a later registration
  ipLimiters,      \* SinglePortProxy.ipLimiters: ip -> tokens of its limiter
  keyLimiters,     \* SinglePortProxy.keyLimiters: key -> tokens of its limiter
  recvChunks,      \* history: body payloads received per request id, in arrival order
  eosSeen,         \* history: request ids whose end-of-stream sentinel has arrived
  headFrames       \* history: number of kind-2 frames applied to each task's handler

VARIABLES
  config,          \* SinglePortProxy.config: IPRateLimit and KeyRateLimit
  now,             \* the clock, in seconds since the gateway started
  ipPassAt,        \* history: the second each task passed the IP limiter (-1 = not)
  keyPassAt,       \* history: the second each task passed the key limiter (-1 = not)
  arrived,         \* each task's request as it arrived: the host of RemoteAddr and
                   \* the X-Forwarded-For and X-Real-IP headers ("" = absent)
  poll,            \* handleHTTPTunnelPoll of each poll request: its locals and position
  outboxLog,       \* history: the frames sent into each client's pollChan, in order
  pollLog,         \* history: the frames received from each client's pollChan, in order
  lastSeen,        \* httpTunnelClient.lastSeen of each client
  sweepers,        \* the cleanupHTTPTunnelClient goroutine each registration starts
  keepalive,       \* per tunnel connection: its read deadline, the pings the
                   \* gateway wrote and the pongs it read, the agent's next ping
  sock,            \* handleConnection of each accepted connection
  calc,            \* a call of a function that keeps no gateway state: its
                   \* arguments, its position and its results
  locking          \* per goroutine: the handler it runs, the lock operation it
                   \* is at, and whether it has called Lock and waits

timeVars == <<now, ipPassAt, keyPassAt>>
lpxVars == <<poll, outboxLog, pollLog, lastSeen, sweepers>>
netVars == <<keepalive, sock>>
moreVars == <<lpxVars, netVars, calc, locking>>
extVars == <<config, timeVars, arrived, moreVars>>

vars == <<clientConns, connState, connKey, rdPc, rdMsg, streamHandlers,
          nextRequestID, req, done, writers, clients, pollChan, chanClosed,
          nextClient, post, frames, panicked, limit, doneBy, replaced,
          recvChunks, eosSeen, headFrames, ipLimiters, keyLimiters, extVars>>

rlVars == <<ipLimiters, keyLimiters>>
wsVars == <<clientConns, connState, connKey, rdPc, rdMsg>>
lpVars == <<clients, pollChan, chanClosed, nextClient>>
histVars == <<limit, replaced, recvChunks, eosSeen>>

\* ------------------------------------------------------ httpResponseWriter
NewWriter == [headerWritten |-> FALSE, statusCode |-> 0, body |-> <<>>]

\* httpResponseWriter.WriteHeader: the first call writes the status line.
WriteHeader(w, code) ==
  IF w.headerWritten THEN w
  ELSE [w EXCEPT !.headerWritten = TRUE, !.statusCode = code]

\* httpResponseWriter.Write: an implicit 200 head, then the bytes on the
\* connection; connOpen is FALSE once the serving connection is closed.
Write(w, data, connOpen) ==
  LET h == IF w.headerWritten THEN w ELSE WriteHeader(w, StatusOK)
  IN IF connOpen THEN [h EXCEPT !.body = w.body \o data] ELSE h

\* http.Error: WriteHeader(code), then the message as body bytes.
HttpError(w, message, code) == Write(WriteHeader(w, code), <<message>>, TRUE)

\* handleHTTPConnection closes the serving connection when ServeHTTP returns.
PublicConnOpen(t) == req[t].pc # "returned"

\* ----------------------------------------------------------- rate limiters
\* A map entry that does not exist yet.
NoLimiter == -1

\* rate.NewLimiter(rate.Inf, 0): a limiter that admits every request.
InfLimiter == -2

\* A bucket created with a burst of three times the rate.
NewLimiter_TripleBurst(n) == n * 3

\* rate.NewLimiter(rate.Limit(n), n*2): a token bucket created full.
NewLimiter(n) == n * 2

\* A getter without the rate <= 0 branch: a rate of 0 creates an empty bucket.
GetLimiter_ZeroIsEmpty(limiters, k, n) ==
  IF limiters[k] # NoLimiter THEN limiters[k] ELSE NewLimiter(n)

\* The limiter getIPLimiter / getKeyLimiter returns: the entry of the map,
\* created on first use; a configured rate of 0 or less creates rate.Inf.
GetLimiter(limiters, k, n) ==
  IF limiters[k] # NoLimiter THEN limiters[k]
  ELSE IF n <= 0 THEN InfLimiter ELSE NewLimiter(n)

\* limiter.Allow(): a token is there, or the limit is rate.Inf.
Allow(limiter) == limiter = InfLimiter \/ limiter >= 1

\* The bucket after Allow() has returned true.
Taken(limiter) == IF limiter = InfLimiter THEN limiter ELSE limiter - 1

\* The bucket of a limiter created with rate n after d more seconds.
Refill(limiter, n, d) ==
  IF limiter \in {NoLimiter, InfLimiter} THEN limiter
  ELSE IF limiter + n * d > NewLimiter(n) THEN NewLimiter(n) ELSE limiter + n * d

\* A key taken from the header as it is, without the "default" fallback.
HeaderKey_Raw(h) == h

\* key := r.Header.Get("X-Tunnel-Key"); if key == "" { key = "default" }
HeaderKey(h) == IF h = "" THEN "default" ELSE h

\* A Go map lookup: the zero value when the key has no entry.
Lookup(m, k) == IF k \in DOMAIN m THEN m[k] ELSE 0

\* ------------------------------------------------------------------- Init
NewRequest ==
  [pc |-> "idle", ip |-> "", header |-> "", key |-> "", wsConn |-> 0,
   httpClient |-> 0, requestID |-> 0, result |-> "none"]

NoPost == [pc |-> "idle", msg |-> NoMsg, handler |-> 0]

NoRequest == [remote |-> "", xff |-> "", xri |-> ""]

NoPoll ==
  [pc |-> "idle", key |-> "", client |-> 0, deadline |-> 0, status |-> 0, msg |-> NoMsg]

NoSweeper == [alive |-> FALSE, key |-> "", next |-> 0]

\* The budgets a run does not name are 0.
NoBudget ==
  [until |-> 0, inflight |-> 0, polls |-> 0, pongs |-> 0, socks |-> 0, threads |-> 0]

\* A goroutine that runs no handler yet.
NoThread == [proc |-> "none", pos |-> 1, asked |-> FALSE]

\* A tunnel connection before its registration.
NoKeepAlive ==
  [readDeadline |-> 0, pings |-> 0, pongs |-> 0, nextPing |-> 0, openedAt |-> 0,
   closedBy |-> "none"]

\* A connection the listener has not accepted yet.
NoSock == [pc |-> "none", prefix |-> <<>>, deadline |-> 0]

\* config.IPRateLimit and config.KeyRateLimit of a run.
Rates(ipRate, keyRate) == [IPRateLimit |-> ipRate, KeyRateLimit |-> keyRate]

\* The requests of a run whose limiter checks are followed.
LimitedTasks(budget) == IF budget.limited THEN 1..budget.reqs ELSE {}

\* The frames of the requests 1..n, in the order of their ids.
RequestFrames(n) == IF n = 0 THEN <<>> ELSE [i \in 1..n |-> RequestFrame(i)]

\* The state of a gateway with the given configuration.  With n > 0 an agent
\* that is behind has registered a long-poll client for "alpha" at the
\* start: n requests for it have been dispatched and have run into their
\* deadline (their sinks are removed, their handlers have returned), and
\* their frames wait un-polled.
\* The limiter checks are followed for the requests of a run with rate
\* limiting, the poll handler for the polls of the run, and the long-poll
\* clients for its registrations.
InitGateway(budget, cfg, n) ==
  /\ limit = budget @@ NoBudget
  /\ config = cfg
  /\ now = 0
  /\ ipPassAt = [t \in LimitedTasks(budget) |-> -1]
  /\ keyPassAt = [t \in LimitedTasks(budget) |-> -1]
  /\ arrived = [t \in LimitedTasks(budget) |-> NoRequest]
  /\ poll = [q \in 1..(budget @@ NoBudget).polls |-> NoPoll]
  /\ outboxLog = [c \in 1..budget.clients |-> IF c = 1 THEN RequestFrames(n) ELSE <<>>]
  /\ pollLog = [c \in 1..budget.clients |-> <<>>]
  /\ lastSeen = [c \in 1..budget.clients |-> 0]
  /\ sweepers = [c \in 1..budget.clients |->
                   IF n > 0 /\ c = 1
                   THEN [alive |-> TRUE, key |-> "alpha", next |-> SweepPeriod]
                   ELSE NoSweeper]
  /\ keepalive = [c \in 1..budget.conns |-> NoKeepAlive]
  /\ sock = [x \in 1..(budget @@ NoBudget).socks |-> NoSock]
  /\ locking = [th \in 1..(budget @@ NoBudget).threads |-> NoThread]
  /\ clientConns = [k \in Keys |-> 0]
  /\ connState = [c \in Conns |-> "new"]
  /\ connKey = [c \in Conns |-> ""]
  /\ rdPc = [c \in Conns |-> "none"]
  /\ rdMsg = [c \in Conns |-> NoMsg]
  /\ streamHandlers = [r \in ReqIds |-> 0]
  /\ nextRequestID = n
  /\ req = [t \in Tasks |-> NewRequest]
  /\ done = [t \in Tasks |-> FALSE]
  /\ writers = [t \in Tasks |-> NewWriter]
  /\ clients = [k \in Keys |-> IF n > 0 /\ k = "alpha" THEN 1 ELSE 0]
  /\ pollChan = [c \in Clients |-> IF c = 1 THEN RequestFrames(n) ELSE <<>>]
  /\ chanClosed = [c \in Clients |-> FALSE]
  /\ nextClient = IF n > 0 THEN 1 ELSE 0
  /\ post = NoPost
  /\ frames = 0
  /\ panicked = FALSE
  /\ doneBy = [t \in Tasks |-> "none"]
  /\ replaced = {}
  /\ recvChunks = [r \in ReqIds |-> <<>>]
  /\ eosSeen = {}
  /\ headFrames = [t \in Tasks |-> 0]
  /\ ipLimiters = [ip \in IPs |-> NoLimiter]
  /\ keyLimiters = [h \in Headers |-> NoLimiter]

\* No call is followed.
NoCalc == [fn |-> "none"]

InitBacklog(budget, cfg, n) == InitGateway(budget, cfg, n) /\ calc = NoCalc

\* A gateway without traffic, and a call with the given arguments about to
\* be made.
Idle == [conns |-> 0, reqs |-> 0, frames |-> 0, clients |-> 0, limited |-> FALSE]

InitCall(c) ==
  /\ InitGateway(Idle, Rates(IPRateLimit, KeyRateLimit), 0)
  /\ calc = c

\* The rest of the state when such a call takes a step.
calcFrame ==
  UNCHANGED <<rlVars, config, timeVars, arrived, lpxVars, netVars, locking, wsVars,
              streamHandlers, nextRequestID, req, done, writers, lpVars, post,
              frames, panicked, doneBy, histVars, headFrames>>

InitConfig(budget, cfg) == InitBacklog(budget, cfg, 0)

InitWith(budget) == InitConfig(budget, Rates(IPRateLimit, KeyRateLimit))

\* A run with both transports.
Init ==
  InitWith([conns |-> MaxConns, reqs |-> MixedReqs, frames |-> MaxFrames,
            clients |-> MaxClients, limited |-> FALSE])

\* A run with the persistent transport only.
InitWS ==
  InitWith([conns |-> MaxConns, reqs |-> MaxReqs, frames |-> MaxFrames,
            clients |-> 0, limited |-> FALSE])

\* A run with the long-poll transport only.
InitLP ==
  InitWith([conns |-> 0, reqs |-> MaxReqs, frames |-> MaxFrames,
            clients |-> MaxClients, limited |-> FALSE])

\* ----------------------------------------------------------- history only
\* A request id is issued once its sink has been put into the pending table.
Issued(r) ==
  \E t \in Tasks :
    /\ req[t].requestID = r
    /\ req[t].pc \in {"dispatch", "await", "timedout", "returned"}

\* Body payloads received for an issued id up to its first sentinel.
ArrivedChunks(f) ==
  IF f.type = MSG_TYPE_HTTP_RES_CHUNK /\ f.payload # <<>>
       /\ Issued(f.id) /\ f.id \notin eosSeen
  THEN [recvChunks EXCEPT ![f.id] = Append(@, f.payload[1])]
  ELSE recvChunks

ArrivedEos(f) ==
  IF f.type = MSG_TYPE_HTTP_RES_CHUNK /\ f.payload = <<>> /\ Issued(f.id)
  THEN eosSeen \cup {f.id}
  ELSE eosSeen

\* ------------------------------------------ persistent transport (WebSocket)
\* A registration that forgets oldConn.Close(): the replaced stream stays open.
CloseOldConn_Skipped(oldConn) == connState

\* oldConn.Close() in handleTunnelRegistration.
CloseOldConn(oldConn) ==
  IF oldConn = 0 THEN connState ELSE [connState EXCEPT ![oldConn] = "closed"]

\* The request ids handleTunnelRegistration cleans up when it replaces a
\* connection: every entry whose done channel is not closed yet.
CleanupIds(oldConn) ==
  IF oldConn = 0 THEN {}
  ELSE {r \in ReqIds : streamHandlers[r] # 0 /\ ~done[streamHandlers[r]]}

\* handleTunnelRegistration from the Upgrade on: the section under connsMu
\* (with the nested section under handlersMu), then the read loop starts.
handleTunnelRegistration(c, key) ==
  /\ ~panicked
  /\ c <= limit.conns
  /\ connState[c] = "new"
  /\ \A d \in Conns : d < c => connState[d] # "new"
  /\ LET oldConn == clientConns[key]
         ids == CleanupIds(oldConn)
         failed == {streamHandlers[r] : r \in ids}
     IN /\ connState' = [CloseOldConn(oldConn) EXCEPT ![c] = "open"]
        /\ streamHandlers' = [r \in ReqIds |-> IF r \in ids THEN 0 ELSE streamHandlers[r]]
        /\ done' = [t \in Tasks |-> done[t] \/ t \in failed]
        /\ doneBy' = [t \in Tasks |-> IF t \in failed THEN "replace" ELSE doneBy[t]]
        /\ replaced' = IF oldConn = 0 THEN replaced ELSE replaced \cup {oldConn}
        /\ clientConns' = [clientConns EXCEPT ![key] = c]
        /\ connKey' = [connKey EXCEPT ![c] = key]
        /\ rdPc' = [rdPc EXCEPT ![c] = "read"]
  \* wsConn.SetReadDeadline(time.Now().Add(serverReadTimeout)); the agent
  \* starts its keepAlive ticker when the tunnel is up
  /\ keepalive' = [keepalive EXCEPT ![c] =
                     [NoKeepAlive EXCEPT !.readDeadline = now + serverReadTimeout,
                                         !.nextPing = now + KeepAlivePeriod,
                                         !.openedAt = now]]
  /\ UNCHANGED <<rdMsg, nextRequestID, req, writers, lpVars, post, frames,
                 panicked, limit, recvChunks, eosSeen, headFrames>>
  /\ UNCHANGED <<rlVars, config, timeVars, arrived, lpxVars, sock, calc, locking>>

\* clientReadLoop: ReadMessage returns a frame of the agent's choosing.
clientReadLoopRead(c, f) ==
  /\ ~panicked
  /\ rdPc[c] = "read"
  /\ connState[c] = "open"
  /\ frames < limit.frames
  /\ rdMsg' = [rdMsg EXCEPT ![c] = f]
  /\ rdPc' = [rdPc EXCEPT ![c] = "apply"]
  /\ frames' = frames + 1
  /\ recvChunks' = ArrivedChunks(f)
  /\ eosSeen' = ArrivedEos(f)
  /\ UNCHANGED <<clientConns, connState, connKey, streamHandlers, nextRequestID,
                 req, done, writers, lpVars, post, panicked, limit, doneBy, replaced,
                 headFrames>>
  /\ UNCHANGED <<rlVars, extVars>>

\* clientReadLoop: the section under handlersMu that applies the frame read.
clientReadLoopApply(c) ==
  /\ ~panicked
  /\ rdPc[c] = "apply"
  /\ rdPc' = [rdPc EXCEPT ![c] = "read"]
  /\ rdMsg' = [rdMsg EXCEPT ![c] = NoMsg]
  /\ LET msg == rdMsg[c]
         h == streamHandlers[msg.id]
     IN IF h = 0
        THEN UNCHANGED <<streamHandlers, done, doneBy, writers, panicked, headFrames>>
        ELSE IF msg.type = MSG_TYPE_HTTP_RES
        THEN IF ~msg.payload.ok
             THEN \* delete(p.streamHandlers, msg.ID); close(handler.done)
                  /\ streamHandlers' = [streamHandlers EXCEPT ![msg.id] = 0]
                  /\ panicked' = done[h]
                  /\ done' = [done EXCEPT ![h] = TRUE]
                  /\ doneBy' = [doneBy EXCEPT ![h] = IF done[h] THEN @ ELSE "badhead"]
                  /\ UNCHANGED <<limit, writers, headFrames>>
             ELSE \* WriteHeader(resp.StatusCode); Flush()
                  /\ writers' = [writers EXCEPT ![h] = WriteHeader(@, msg.payload.status)]
                  /\ headFrames' = [headFrames EXCEPT ![h] = @ + 1]
                  /\ UNCHANGED <<limit, streamHandlers, done, doneBy, panicked>>
        ELSE IF msg.payload # <<>>
        THEN \* handler.writer.Write(msg.Payload); a write error is only logged
             /\ writers' = [writers EXCEPT ![h] = Write(@, msg.payload, PublicConnOpen(h))]
             /\ UNCHANGED <<streamHandlers, done, doneBy, panicked, limit, headFrames>>
        ELSE \* close(handler.done); delete(p.streamHandlers, msg.ID)
             /\ streamHandlers' = [streamHandlers EXCEPT ![msg.id] = 0]
             /\ panicked' = done[h]
             /\ done' = [done EXCEPT ![h] = TRUE]
             /\ doneBy' = [doneBy EXCEPT ![h] = IF done[h] THEN @ ELSE "eos"]
             /\ UNCHANGED <<limit, writers, headFrames>>
  /\ UNCHANGED <<clientConns, connState, connKey, nextRequestID, req, lpVars,
                 post, frames, histVars>>
  /\ UNCHANGED <<rlVars, extVars>>

\* clientReadLoop: ReadMessage fails (the connection was closed, the agent
\* went away or the read deadline expired) and the deferred cleanup runs.
clientReadLoopExit(c) ==
  /\ ~panicked
  /\ rdPc[c] = "read"
  /\ rdPc' = [rdPc EXCEPT ![c] = "exited"]
  /\ connState' = [connState EXCEPT ![c] = "closed"]
  /\ clientConns' = [clientConns EXCEPT ![connKey[c]] = 0]
  /\ UNCHANGED <<connKey, rdMsg, streamHandlers, nextRequestID, req, done,
                 writers, lpVars, post, frames, panicked, doneBy, histVars,
                 headFrames>>
  /\ UNCHANGED <<rlVars, extVars>>

\* clientReadLoop: ReadMessage fails because the read deadline has passed;
\* the loop breaks and the deferred cleanup runs.
clientReadLoopTimeout(c) ==
  /\ ~panicked
  /\ c <= limit.conns
  /\ rdPc[c] = "read"
  /\ connState[c] = "open"
  /\ now >= keepalive[c].readDeadline
  /\ rdPc' = [rdPc EXCEPT ![c] = "exited"]
  /\ connState' = [connState EXCEPT ![c] = "closed"]
  /\ clientConns' = [clientConns EXCEPT ![connKey[c]] = 0]
  /\ keepalive' = [keepalive EXCEPT ![c].closedBy = "deadline"]
  /\ UNCHANGED <<connKey, rdMsg, streamHandlers, nextRequestID, req, done,
                 writers, lpVars, post, frames, panicked, doneBy, histVars,
                 headFrames>>
  /\ UNCHANGED <<rlVars, config, timeVars, arrived, lpxVars, sock, calc, locking>>

\* The pong handler installed by clientReadLoop: ReadMessage meets a pong
\* and the read deadline moves to 90 s from now.  The gateway writes no ping,
\* so the pong is one the agent sends unasked.
pongHandler(c) ==
  /\ ~panicked
  /\ c <= limit.conns
  /\ rdPc[c] = "read"
  /\ connState[c] = "open"
  /\ now < keepalive[c].readDeadline
  /\ keepalive[c].pongs < limit.pongs
  /\ keepalive' = [keepalive EXCEPT ![c].readDeadline = now + serverReadTimeout,
                                    ![c].pongs = @ + 1]
  /\ UNCHANGED <<wsVars, streamHandlers, nextRequestID, req, done, writers, lpVars,
                 post, frames, panicked, doneBy, histVars, headFrames>>
  /\ UNCHANGED <<rlVars, config, timeVars, arrived, lpxVars, sock, calc, locking>>

\* TunnelClient.keepAlive: the agent's ticker fires and it writes a ping.
\* The gateway's reader answers it with a pong (the library's default ping
\* handler); its read deadline stays where it was.
keepAlive(c) ==
  /\ ~panicked
  /\ c <= limit.conns
  /\ rdPc[c] \in {"read", "apply"}
  /\ connState[c] = "open"
  /\ now >= keepalive[c].nextPing
  /\ keepalive' = [keepalive EXCEPT ![c].nextPing = @ + KeepAlivePeriod]
  /\ UNCHANGED <<wsVars, streamHandlers, nextRequestID, req, done, writers, lpVars,
                 post, frames, panicked, doneBy, histVars, headFrames>>
  /\ UNCHANGED <<rlVars, config, timeVars, arrived, lpxVars, sock, calc, locking>>

\* ------------------------------------------------------ protocol detection
\* The bytes the first Read of a connection may return: at least one.
Bytes == {4, SOCKS5Version, 71}
FirstReads == UNION {[1..n -> Bytes] : n \in 1..MaxPrefix}

\* A detection that looks at the last byte read instead of the first.
IsSOCKS5_LastByte(actualBuf) == actualBuf[Len(actualBuf)] = SOCKS5Version

\* len(actualBuf) > 0 && actualBuf[0] == 0x05
IsSOCKS5(actualBuf) == Len(actualBuf) > 0 /\ actualBuf[1] = SOCKS5Version

\* The rest of the state when the dispatcher takes a step.
sockFrame ==
  UNCHANGED <<rlVars, config, timeVars, arrived, lpxVars, keepalive, calc, locking, wsVars,
              streamHandlers, nextRequestID, req, done, writers, lpVars, post,
              frames, panicked, doneBy, histVars, headFrames>>

\* Start: listener.Accept() returns a connection; handleConnection sets its
\* read deadline to 5 s from now.
acceptConnection(x) ==
  /\ ~panicked
  /\ x <= limit.socks
  /\ sock[x].pc = "none"
  /\ \A y \in 1..(x - 1) : sock[y].pc # "none"
  /\ sock' = [sock EXCEPT ![x] = [NoSock EXCEPT !.pc = "read",
                                                !.deadline = now + DetectTimeout]]
  /\ sockFrame

\* handleConnection: conn.Read returns the first bytes before the deadline;
\* the deadline is cleared and the connection, with the bytes put back in
\* front, goes to the SOCKS5 server or to the HTTP server.
handleConnection(x, data) ==
  /\ ~panicked
  /\ x <= limit.socks
  /\ sock[x].pc = "read"
  /\ now < sock[x].deadline
  /\ sock' = [sock EXCEPT ![x] = [pc |-> IF IsSOCKS5(data) THEN "socks5" ELSE "http",
                                  prefix |-> data,
                                  deadline |-> 0]]
  /\ sockFrame

\* handleConnection: conn.Read fails (the peer closed, or nothing came within
\* the deadline) and the connection is closed.
handleConnectionReadError(x) ==
  /\ ~panicked
  /\ x <= limit.socks
  /\ sock[x].pc = "read"
  /\ sock' = [sock EXCEPT ![x].pc = "closed"]
  /\ sockFrame

\* ------------------------------------------------------------------ locks
\* connsMu, httpTunnelMgr.mu and rateLimitMu are sync.RWMutex, handlersMu is
\* a sync.Mutex.
RWMutexes == {"connsMu", "mgrMu", "rateLimitMu"}

\* A reader that takes connsMu while it holds handlersMu.
ReaderLocks_Nested ==
  << <<"Lock", "handlersMu">>, <<"Lock", "connsMu">>,
     <<"Unlock", "connsMu">>, <<"Unlock", "handlersMu">> >>

\* clientReadLoop: handlersMu around the application of a frame; connsMu in
\* the deferred cleanup when the loop has ended.
ReaderLocks ==
  << <<"Lock", "handlersMu">>, <<"Unlock", "handlersMu">>,
     <<"Lock", "connsMu">>, <<"Unlock", "connsMu">> >>

\* The lock operations of each handler, in the order it executes them.
LockOps(proc) ==
  CASE proc = "handleTunnelRegistration" ->
         \* connsMu, and inside it handlersMu when a connection is replaced
         << <<"Lock", "connsMu">>, <<"Lock", "handlersMu">>,
            <<"Unlock", "handlersMu">>, <<"Unlock", "connsMu">> >>
    [] proc = "clientReadLoop" -> ReaderLocks
    [] proc = "handlePublicHTTPRequest" ->
         \* getIPLimiter, getKeyLimiter, the two lookups, the registration of
         \* the sink, its deletion after a failed dispatch or the timeout
         << <<"Lock", "rateLimitMu">>, <<"Unlock", "rateLimitMu">>,
            <<"Lock", "rateLimitMu">>, <<"Unlock", "rateLimitMu">>,
            <<"RLock", "connsMu">>, <<"RUnlock", "connsMu">>,
            <<"RLock", "mgrMu">>, <<"RUnlock", "mgrMu">>,
            <<"Lock", "handlersMu">>, <<"Unlock", "handlersMu">>,
            <<"Lock", "handlersMu">>, <<"Unlock", "handlersMu">> >>
    [] proc = "handleHTTPTunnelRegister" ->
         << <<"Lock", "mgrMu">>, <<"Unlock", "mgrMu">> >>
    [] proc = "handleHTTPTunnelPoll" ->
         << <<"RLock", "mgrMu">>, <<"RUnlock", "mgrMu">>,
            <<"Lock", "mgrMu">>, <<"Unlock", "mgrMu">> >>
    [] proc = "handleHTTPTunnelResponse" ->
         \* the lookup, lastSeen, then handleHTTPTunnelMessage
         << <<"RLock", "mgrMu">>, <<"RUnlock", "mgrMu">>,
            <<"Lock", "mgrMu">>, <<"Unlock", "mgrMu">>,
            <<"Lock", "handlersMu">>, <<"Unlock", "handlersMu">> >>
    [] proc = "cleanupHTTPTunnelClient" ->
         << <<"Lock", "mgrMu">>, <<"Unlock", "mgrMu">> >>
    [] OTHER -> <<>>

Handlers ==
  {"handleTunnelRegistration", "clientReadLoop", "handlePublicHTTPRequest",
   "handleHTTPTunnelRegister", "handleHTTPTunnelPoll", "handleHTTPTunnelResponse",
   "cleanupHTTPTunnelClient"}

\* The operation goroutine th is at (<<"end", "">> when its handler is over).
NextOp(th) ==
  LET ops == LockOps(locking[th].proc)
  IN IF locking[th].pos <= Len(ops) THEN ops[locking[th].pos] ELSE <<"end", "">>

\* Goroutine th holds mutex m, acquired with acquire and given back with
\* release: it has executed more of the former than of the latter.
Holds(th, acquire, release, m) ==
  LET ops == LockOps(locking[th].proc)
      done1 == 1..(locking[th].pos - 1)
  IN Cardinality({i \in done1 : ops[i] = <<acquire, m>>})
       > Cardinality({i \in done1 : ops[i] = <<release, m>>})

HoldsLock(th, m) == Holds(th, "Lock", "Unlock", m)
HoldsRLock(th, m) == Holds(th, "RLock", "RUnlock", m)

\* Goroutine th has called Lock on m and has not got it yet.
WaitsForLock(th, m) ==
  /\ NextOp(th) = <<"Lock", m>>
  /\ m \in RWMutexes => locking[th].asked

\* Goroutine th can execute its next operation.  Lock needs the mutex free of
\* holders of either kind; RLock needs it free of a writer and, a pending
\* Lock going first, of waiting writers; the first step of a Lock on an
\* RWMutex announces it.
CanStep(th) ==
  LET op == NextOp(th)
      m == op[2]
      others == DOMAIN locking \ {th}
  IN CASE op[1] = "Lock" ->
            \/ m \in RWMutexes /\ ~locking[th].asked
            \/ \A o \in others : ~HoldsLock(o, m) /\ ~HoldsRLock(o, m)
       [] op[1] = "RLock" ->
            \A o \in others : ~HoldsLock(o, m) /\ ~(WaitsForLock(o, m) /\ m \in RWMutexes)
       [] op[1] \in {"Unlock", "RUnlock"} -> TRUE
       [] OTHER -> FALSE

\* The rest of the state when a goroutine executes a lock operation.
lockFrame ==
  UNCHANGED <<rlVars, config, timeVars, arrived, lpxVars, netVars, calc, wsVars,
              streamHandlers, nextRequestID, req, done, writers, lpVars, post,
              frames, panicked, doneBy, histVars, headFrames>>

\* A goroutine starts to run a handler.
handlerStarts(th, proc) ==
  /\ th <= limit.threads
  /\ locking[th].proc = "none"
  /\ \A o \in 1..(th - 1) : locking[o].proc # "none"
  /\ locking' = [locking EXCEPT ![th] = [NoThread EXCEPT !.proc = proc]]
  /\ lockFrame

\* A goroutine executes its next lock operation.
lockStep(th) ==
  /\ th <= limit.threads
  /\ CanStep(th)
  /\ IF NextOp(th)[1] = "Lock" /\ NextOp(th)[2] \in RWMutexes /\ ~locking[th].asked
     THEN locking' = [locking EXCEPT ![th].asked = TRUE]
     ELSE locking' = [locking EXCEPT ![th].pos = @ + 1, ![th].asked = FALSE]
  /\ lockFrame

\* ------------------------------------------------------------ frame codec
\* A uint64 is held as four 16-bit limbs, most significant first; a byte is
\* a number in 0..255.
Byte == 256

\* The frames and the byte strings the codec is given.
CodecIDs ==
  { <<0, 0, 0, 0>>, <<0, 0, 0, 1>>, <<0, 0, 0, 456>>, <<0, 0, 1, 0>>,
    <<1, 2, 3, 4>>, <<65535, 65535, 65535, 65535>> }
CodecTypes == {MSG_TYPE_HTTP_REQ, MSG_TYPE_HTTP_RES, MSG_TYPE_HTTP_RES_CHUNK, 255}
CodecPayloads == UNION {[1..n -> {0, 255}] : n \in 0..MaxPayload}
CodecMessages ==
  [ID : CodecIDs, Type : CodecTypes, Payload : CodecPayloads]
RawData == UNION {[1..n -> {0, MSG_TYPE_HTTP_RES_CHUNK, 255}] : n \in 0..MaxRaw}

\* binary.Write(buf, binary.BigEndian, msg.ID): the 8 bytes of the ID, most
\* significant first.
PutUint64(id) ==
  [i \in 1..8 |-> IF i % 2 = 1 THEN id[(i + 1) \div 2] \div Byte
                              ELSE id[i \div 2] % Byte]

\* A decoder that reads the ID least significant byte first.
Uint64_LittleEndian(b) == [j \in 1..4 |-> b[10 - 2 * j] * Byte + b[9 - 2 * j]]

\* binary.BigEndian.Uint64(data[:8])
Uint64(b) == [j \in 1..4 |-> b[2 * j - 1] * Byte + b[2 * j]]

\* SerializeTunnelMessage: ID, Type, then the payload as it is.
SerializeTunnelMessage(msg) == PutUint64(msg.ID) \o <<msg.Type>> \o msg.Payload

\* DeserializeTunnelMessage of at least 9 bytes.
DeserializeTunnelMessage(data) ==
  [ID |-> Uint64(SubSeq(data, 1, 8)),
   Type |-> data[HeaderLen],
   Payload |-> SubSeq(data, HeaderLen + 1, Len(data))]

NoMessage == [ID |-> <<0, 0, 0, 0>>, Type |-> 0, Payload |-> <<>>]

\* The frame of the call is encoded.
serializeTunnelMessage ==
  /\ calc.fn = "codec"
  /\ calc.pc = "msg"
  /\ calc.trips < MaxTrips
  /\ calc' = [calc EXCEPT !.pc = "data", !.trips = @ + 1,
                          !.data = SerializeTunnelMessage(calc.msg),
                          !.msg = NoMessage]
  /\ calcFrame

\* The bytes of the call are decoded: "message too short" below 9 bytes.
deserializeTunnelMessage ==
  /\ calc.fn = "codec"
  /\ calc.pc = "data"
  /\ calc.trips < MaxTrips
  /\ IF Len(calc.data) < HeaderLen
     THEN calc' = [calc EXCEPT !.pc = "error", !.trips = @ + 1, !.data = <<>>]
     ELSE calc' = [calc EXCEPT !.pc = "msg", !.trips = @ + 1,
                               !.msg = DeserializeTunnelMessage(calc.data),
                               !.data = <<>>]
  /\ calcFrame

\* ---------------------------------------------------------- prefixedConn
\* The first n bytes peeked and the first n bytes the peer sends after them;
\* every byte is told apart from every other.
PeekedBytes(n) == [i \in 1..n |-> <<"peeked", i>>]
SocketBytes(n) == [i \in 1..n |-> <<"socket", i>>]

Min(a, b) == IF a < b THEN a ELSE b

\* A replay that does not advance.
RestOfPrefix_Restart(prefix, n) == prefix

\* pc.prefix = pc.prefix[n:]
RestOfPrefix(prefix, n) == SubSeq(prefix, n + 1, Len(prefix))

\* prefixedConn.Read(b) with len(b) = size.  While the prefix is not read the
\* call copies from it and returns; afterwards it is the Read of the
\* connection, which returns n of the bytes that are there (at least one when
\* the buffer has room and a byte is there).
prefixedConnRead(size, n) ==
  /\ calc.fn = "prefixedConn"
  /\ calc.reads < MaxReads
  /\ IF ~calc.prefixRead /\ Len(calc.prefix) > 0
     THEN LET copied == Min(size, Len(calc.prefix))
          IN /\ n = copied
             /\ calc' = [calc EXCEPT
                   !.reads = @ + 1,
                   !.last = SubSeq(calc.prefix, 1, copied),
                   !.got = @ \o SubSeq(calc.prefix, 1, copied),
                   !.prefix = IF copied < Len(calc.prefix)
                              THEN RestOfPrefix(calc.prefix, copied) ELSE @,
                   !.prefixRead = ~(copied < Len(calc.prefix))]
     ELSE /\ n <= Min(size, Len(calc.socket))
          /\ n = 0 => Min(size, Len(calc.socket)) = 0
          /\ calc' = [calc EXCEPT
                !.reads = @ + 1,
                !.last = SubSeq(calc.socket, 1, n),
                !.got = @ \o SubSeq(calc.socket, 1, n),
                !.socket = SubSeq(calc.socket, n + 1, Len(calc.socket))]
  /\ calcFrame

\* ---------------------------------------------------------------- routing
\* A URL path is the sequence of its segments: "/ws/alpha" is <<"ws", "alpha">>,
\* "/ws/" is <<"ws", "">> and "/" is <<"">>.
Segments == {"ws", "http-tunnel", "proxy", "tunnel", "alpha", ""}
Paths == UNION {[1..n -> Segments] : n \in 1..MaxSegments}

\* A router that looks for the segment "ws" anywhere before the last one.
HasPrefixWs_Anywhere(path) == \E i \in 1..(Len(path) - 1) : path[i] = "ws"

\* strings.HasPrefix(r.URL.Path, "/ws/")
HasPrefixWs(path) == Len(path) >= 2 /\ path[1] = "ws"

\* ServeHTTP: the handler a request goes to, and for a registration the key
\* that strings.TrimPrefix(r.URL.Path, "/ws/") yields.  There is no other
\* route: handleHTTPTunnel and handleHTTPProxy are never called.
ServeHTTP(path) ==
  IF HasPrefixWs(path)
  THEN [handler |-> "handleTunnelRegistration", key |-> Tail(path)]
  ELSE [handler |-> "handlePublicHTTPRequest", key |-> <<>>]

\* A request with the path of the call is routed.
serveHTTP ==
  /\ calc.fn = "ServeHTTP"
  /\ calc.pc = "call"
  /\ calc' = [calc EXCEPT !.pc = "done", !.out = ServeHTTP(calc.path)]
  /\ calcFrame

\* ---------------------------------------------------- public HTTP handler
SetReq(t, r) == [req EXCEPT ![t] = r]

\* The requests the gateway is handling: arrived, not yet dispatched.
InFlight == {u \in Tasks : req[u].pc \notin {"idle", "await", "returned"}}

\* The clients of a run send a new request only while fewer than
\* limit.inflight are being handled (0 = no such restraint).
ArrivalAllowed == limit.inflight = 0 \/ Cardinality(InFlight) < limit.inflight

\* logger.GetClientIP: X-Forwarded-For, else X-Real-IP, else the host of
\* RemoteAddr.
GetClientIP(xff, xri, remote) ==
  IF xff # "" THEN xff ELSE IF xri # "" THEN xri ELSE remote

\* handlePublicHTTPRequest: a request arrives from the socket address ip with
\* the given X-Tunnel-Key, X-Forwarded-For and X-Real-IP headers;
\* ip is net.SplitHostPort(r.RemoteAddr), then p.getIPLimiter(ip) and
\* ipLimiter.Allow().
publicCheckIPLimit(t, ip, header, xff, xri) ==
  /\ ~panicked
  /\ limit.limited
  /\ t <= limit.reqs
  /\ req[t].pc = "idle"
  /\ \A u \in Tasks : u < t => req[u].pc # "idle"
  /\ ArrivalAllowed
  /\ arrived' = [arrived EXCEPT ![t] = [remote |-> ip, xff |-> xff, xri |-> xri]]
  /\ LET limiter == GetLimiter(ipLimiters, ip, config.IPRateLimit)
         r == [req[t] EXCEPT !.ip = ip, !.header = header]
     IN IF Allow(limiter)
        THEN /\ ipLimiters' = [ipLimiters EXCEPT ![ip] = Taken(limiter)]
             /\ ipPassAt' = [ipPassAt EXCEPT ![t] = now]
             /\ req' = SetReq(t, [r EXCEPT !.pc = "keylimit"])
             /\ UNCHANGED writers
        ELSE /\ ipLimiters' = [ipLimiters EXCEPT ![ip] = limiter]
             /\ writers' = [writers EXCEPT
                   ![t] = HttpError(@, "Too many requests from your IP",
                                    StatusTooManyRequests)]
             /\ req' = SetReq(t, [r EXCEPT !.pc = "returned", !.result = "iplimited"])
             /\ UNCHANGED ipPassAt
  /\ UNCHANGED <<keyLimiters, config, now, keyPassAt, moreVars, wsVars, streamHandlers, nextRequestID, done, lpVars,
                 post, frames, panicked, doneBy, histVars, headFrames>>

\* A key check that admits a request when the bucket is empty.
publicCheckKeyLimit_AlwaysAllow(t) ==
  /\ ~panicked
  /\ req[t].pc = "keylimit"
  /\ LET key == HeaderKey(req[t].header)
         limiter == GetLimiter(keyLimiters, key, config.KeyRateLimit)
     IN /\ keyLimiters' = [keyLimiters EXCEPT
              ![key] = IF Allow(limiter) THEN Taken(limiter) ELSE limiter]
        /\ keyPassAt' = [keyPassAt EXCEPT ![t] = now]
        /\ req' = SetReq(t, [req[t] EXCEPT !.pc = "admitted", !.key = key])
  /\ UNCHANGED <<ipLimiters, config, now, ipPassAt, arrived, moreVars, writers, wsVars, streamHandlers, nextRequestID, done,
                 lpVars, post, frames, panicked, doneBy, histVars, headFrames>>

\* handlePublicHTTPRequest: the key of the request, p.getKeyLimiter(key) and
\* keyLimiter.Allow().
publicCheckKeyLimit(t) ==
  /\ ~panicked
  /\ req[t].pc = "keylimit"
  /\ LET key == HeaderKey(req[t].header)
         limiter == GetLimiter(keyLimiters, key, config.KeyRateLimit)
     IN IF Allow(limiter)
        THEN /\ keyLimiters' = [keyLimiters EXCEPT ![key] = Taken(limiter)]
             /\ keyPassAt' = [keyPassAt EXCEPT ![t] = now]
             /\ req' = SetReq(t, [req[t] EXCEPT !.pc = "admitted", !.key = key])
             /\ UNCHANGED writers
        ELSE /\ keyLimiters' = [keyLimiters EXCEPT ![key] = limiter]
             /\ writers' = [writers EXCEPT
                   ![t] = HttpError(@, "Too many requests for this service",
                                    StatusTooManyRequests)]
             /\ req' = SetReq(t, [req[t] EXCEPT !.pc = "returned", !.key = key,
                                                !.result = "keylimited"])
             /\ UNCHANGED keyPassAt
  /\ UNCHANGED <<ipLimiters, config, now, ipPassAt, arrived, moreVars, wsVars, streamHandlers, nextRequestID, done, lpVars,
                 post, frames, panicked, doneBy, histVars, headFrames>>

\* Time passes: the bucket of an existing limiter gains a token, up to its
\* burst of twice the rate.
ipLimiterRefill(ip) ==
  /\ ~panicked
  /\ ipLimiters[ip] \notin {NoLimiter, InfLimiter}
  /\ ipLimiters[ip] < NewLimiter(config.IPRateLimit)
  /\ ipLimiters' = [ipLimiters EXCEPT ![ip] = @ + 1]
  /\ UNCHANGED <<keyLimiters, extVars, wsVars, streamHandlers, nextRequestID, req, done,
                 writers, lpVars, post, frames, panicked, doneBy, histVars,
                 headFrames>>

keyLimiterRefill(key) ==
  /\ ~panicked
  /\ keyLimiters[key] \notin {NoLimiter, InfLimiter}
  /\ keyLimiters[key] < NewLimiter(config.KeyRateLimit)
  /\ keyLimiters' = [keyLimiters EXCEPT ![key] = @ + 1]
  /\ UNCHANGED <<ipLimiters, extVars, wsVars, streamHandlers, nextRequestID, req, done,
                 writers, lpVars, post, frames, panicked, doneBy, histVars,
                 headFrames>>

\* The clock advances by d seconds: every bucket gains rate * d tokens, up to
\* its burst.
timePasses(d) ==
  /\ ~panicked
  /\ now + d <= limit.until
  \* a poll that waits returns when its timer fires
  /\ \A q \in DOMAIN poll : poll[q].pc = "wait" => now + d <= poll[q].deadline
  \* a read that waits fails when its deadline passes; the agent's ticker fires
  /\ \A c \in DOMAIN keepalive :
       /\ (rdPc[c] = "read" /\ connState[c] = "open")
            => now + d <= keepalive[c].readDeadline
       /\ (rdPc[c] \in {"read", "apply"} /\ connState[c] = "open")
            => now + d <= keepalive[c].nextPing
  /\ \A x \in DOMAIN sock : sock[x].pc = "read" => now + d <= sock[x].deadline
  /\ now' = now + d
  /\ ipLimiters' = [ip \in IPs |-> Refill(ipLimiters[ip], config.IPRateLimit, d)]
  /\ keyLimiters' = [h \in Headers |-> Refill(keyLimiters[h], config.KeyRateLimit, d)]
  /\ UNCHANGED <<config, ipPassAt, keyPassAt, arrived, moreVars, wsVars, streamHandlers,
                 nextRequestID,
                 req, done, writers, lpVars, post, frames, panicked, doneBy,
                 histVars, headFrames>>

\* handlePublicHTTPRequest: the lookup in clientConns under connsMu.RLock.
\* With rate limiting switched off (both rates 0) every limiter admits, and
\* the arrival of a request that names its key is part of this step; with
\* rate limiting on the request has passed the two limiter checks.
publicLookupWS(t, key) ==
  /\ ~panicked
  /\ t <= limit.reqs
  /\ \/ /\ ~limit.limited
        /\ req[t].pc = "idle"
        /\ \A u \in Tasks : u < t => req[u].pc # "idle"
        /\ ArrivalAllowed
     \/ /\ req[t].pc = "admitted"
        /\ key = req[t].key
  /\ req' = SetReq(t, [req[t] EXCEPT !.pc = "lookupHTTP", !.key = key,
                                      !.header = IF req[t].pc = "idle" THEN key ELSE @,
                                      !.wsConn = Lookup(clientConns, key)])
  /\ UNCHANGED <<wsVars, streamHandlers, nextRequestID, done, writers, lpVars,
                 post, frames, panicked, doneBy, histVars, headFrames>>
  /\ UNCHANGED <<rlVars, extVars>>

\* A lookup that forgets the !wsExists && !httpExists return.
publicLookupHTTP_NoCheck(t) ==
  /\ ~panicked
  /\ req[t].pc = "lookupHTTP"
  /\ req' = SetReq(t, [req[t] EXCEPT !.pc = "alloc", !.httpClient = Lookup(clients, req[t].key)])
  /\ UNCHANGED <<wsVars, streamHandlers, nextRequestID, done, writers, lpVars, post,
                 frames, panicked, doneBy, histVars, headFrames>>
  /\ UNCHANGED <<rlVars, extVars>>

\* handlePublicHTTPRequest: the lookup in httpTunnelMgr.clients under its
\* RLock; 502 when the key has neither transport.
publicLookupHTTP(t) ==
  /\ ~panicked
  /\ req[t].pc = "lookupHTTP"
  /\ LET httpClient == Lookup(clients, req[t].key)
     IN IF req[t].wsConn = 0 /\ httpClient = 0
        THEN /\ writers' = [writers EXCEPT
                   ![t] = HttpError(@, "Service unavailable", StatusBadGateway)]
             /\ req' = SetReq(t, [req[t] EXCEPT !.pc = "returned", !.result = "notunnel"])
        ELSE /\ req' = SetReq(t, [req[t] EXCEPT !.pc = "alloc", !.httpClient = httpClient])
             /\ UNCHANGED writers
  /\ UNCHANGED <<wsVars, streamHandlers, nextRequestID, done, lpVars, post,
                 frames, panicked, doneBy, histVars, headFrames>>
  /\ UNCHANGED <<rlVars, extVars>>

\* An allocation that loads and stores the counter in two steps: the update
\* is lost when another request is allocating at the same time.
publicAllocID_LostUpdate(t) ==
  /\ ~panicked
  /\ req[t].pc = "alloc"
  /\ nextRequestID' = IF \E u \in Tasks : u # t /\ req[u].pc = "alloc"
                      THEN nextRequestID ELSE nextRequestID + 1
  /\ req' = SetReq(t, [req[t] EXCEPT !.pc = "sink", !.requestID = nextRequestID + 1])
  /\ UNCHANGED <<wsVars, streamHandlers, done, writers, lpVars, post, frames,
                 panicked, doneBy, histVars, headFrames>>
  /\ UNCHANGED <<rlVars, extVars>>

\* handlePublicHTTPRequest: requestID := atomic.AddUint64(&p.nextRequestID, 1).
publicAllocID(t) ==
  /\ ~panicked
  /\ req[t].pc = "alloc"
  /\ nextRequestID' = nextRequestID + 1
  /\ req' = SetReq(t, [req[t] EXCEPT !.pc = "sink", !.requestID = nextRequestID + 1])
  /\ UNCHANGED <<wsVars, streamHandlers, done, writers, lpVars, post, frames,
                 panicked, doneBy, histVars, headFrames>>
  /\ UNCHANGED <<rlVars, extVars>>

\* handlePublicHTTPRequest: p.streamHandlers[requestID] = handler under handlersMu.
publicRegisterSink(t) ==
  /\ ~panicked
  /\ req[t].pc = "sink"
  /\ streamHandlers' = [streamHandlers EXCEPT ![req[t].requestID] = t]
  /\ req' = SetReq(t, [req[t] EXCEPT !.pc = "dispatch"])
  /\ UNCHANGED <<wsVars, nextRequestID, done, writers, lpVars, post, frames,
                 panicked, doneBy, histVars, headFrames>>
  /\ UNCHANGED <<rlVars, extVars>>

\* The error return of a dispatch: the sink is deleted and http.Error replies.
DispatchFailed(t, message, code, result) ==
  /\ streamHandlers' = [streamHandlers EXCEPT ![req[t].requestID] = 0]
  /\ writers' = [writers EXCEPT ![t] = HttpError(@, message, code)]
  /\ req' = SetReq(t, [req[t] EXCEPT !.pc = "returned", !.result = result])

\* A channel whose buffer never counts as full.
ChanFull_Never(ch) == FALSE

\* The send of `select { case ch <- msg: ... default: ... }` cannot proceed:
\* the buffer of the channel is full.
ChanFull(ch) == Len(ch) >= PollChanCap

\* handlePublicHTTPRequest: the HTTP_REQ frame goes to the WebSocket when the
\* lookup found one, else into the long-poll client's pollChan.
publicDispatch(t) ==
  /\ ~panicked
  /\ req[t].pc = "dispatch"
  /\ IF req[t].wsConn # 0
     THEN \* wsConn.WriteMessage fails on a closed connection
          /\ IF connState[req[t].wsConn] = "open"
             THEN /\ req' = SetReq(t, [req[t] EXCEPT !.pc = "await"])
                  /\ UNCHANGED <<limit, streamHandlers, writers>>
             ELSE DispatchFailed(t, "Failed to forward request", StatusBadGateway,
                                 "badgateway")
          /\ UNCHANGED <<limit, pollChan, outboxLog, panicked>>
     ELSE LET hc == req[t].httpClient
          IN IF chanClosed[hc]
             THEN \* send on a closed channel
                  /\ panicked' = TRUE
                  /\ UNCHANGED <<limit, streamHandlers, writers, req, pollChan, outboxLog>>
             ELSE IF ChanFull(pollChan[hc])
             THEN /\ DispatchFailed(t, "Tunnel client busy", StatusServiceUnavailable,
                                    "busy")
                  /\ UNCHANGED <<limit, pollChan, outboxLog, panicked>>
             ELSE /\ pollChan' = [pollChan EXCEPT
                        ![hc] = Append(@, RequestFrame(req[t].requestID))]
                  /\ outboxLog' = [outboxLog EXCEPT
                        ![hc] = Append(@, RequestFrame(req[t].requestID))]
                  /\ req' = SetReq(t, [req[t] EXCEPT !.pc = "await"])
                  /\ UNCHANGED <<limit, streamHandlers, writers, panicked>>
  /\ UNCHANGED <<wsVars, nextRequestID, done, clients, chanClosed, nextClient,
                 post, frames, doneBy, histVars, headFrames>>
  /\ UNCHANGED <<rlVars, config, timeVars, arrived, netVars, calc, locking, poll, pollLog, lastSeen, sweepers>>

\* handlePublicHTTPRequest: the call of wsConn.WriteMessage begins.  No lock
\* is held: connsMu was released after the lookup, handlersMu after the sink
\* was registered.
publicWriteBegin(t) ==
  /\ ~panicked
  /\ req[t].pc = "dispatch"
  /\ req[t].wsConn # 0
  /\ req' = SetReq(t, [req[t] EXCEPT !.pc = "write"])
  /\ UNCHANGED <<wsVars, streamHandlers, nextRequestID, done, writers, lpVars, post,
                 frames, panicked, doneBy, histVars, headFrames>>
  /\ UNCHANGED <<rlVars, extVars>>

\* handlePublicHTTPRequest: wsConn.WriteMessage returns, with an error when
\* the connection is closed.
publicWriteEnd(t) ==
  /\ ~panicked
  /\ req[t].pc = "write"
  /\ IF connState[req[t].wsConn] = "open"
     THEN /\ req' = SetReq(t, [req[t] EXCEPT !.pc = "await"])
          /\ UNCHANGED <<streamHandlers, writers>>
     ELSE DispatchFailed(t, "Failed to forward request", StatusBadGateway,
                         "badgateway")
  /\ UNCHANGED <<wsVars, nextRequestID, done, lpVars, post, frames, panicked,
                 doneBy, histVars, headFrames>>
  /\ UNCHANGED <<rlVars, extVars>>

\* handlePublicHTTPRequest: case <-handler.done of the final select.
publicAwaitDone(t) ==
  /\ ~panicked
  /\ req[t].pc = "await"
  /\ done[t]
  /\ req' = SetReq(t, [req[t] EXCEPT !.pc = "returned", !.result = "completed"])
  /\ UNCHANGED <<wsVars, streamHandlers, nextRequestID, done, writers, lpVars,
                 post, frames, panicked, doneBy, histVars, headFrames>>
  /\ UNCHANGED <<rlVars, extVars>>

\* A deadline expiry that forgets delete(p.streamHandlers, requestID).
publicTimeout_KeepsSink(t) ==
  /\ ~panicked
  /\ req[t].pc = "await"
  /\ req' = SetReq(t, [req[t] EXCEPT !.pc = "timedout"])
  /\ UNCHANGED <<wsVars, streamHandlers, nextRequestID, done, writers, lpVars, post,
                 frames, panicked, doneBy, histVars, headFrames>>
  /\ UNCHANGED <<rlVars, extVars>>

\* handlePublicHTTPRequest: case <-timer.C, the sink is deleted under handlersMu.
publicTimeout(t) ==
  /\ ~panicked
  /\ req[t].pc = "await"
  /\ streamHandlers' = [streamHandlers EXCEPT ![req[t].requestID] = 0]
  /\ req' = SetReq(t, [req[t] EXCEPT !.pc = "timedout"])
  /\ UNCHANGED <<wsVars, nextRequestID, done, writers, lpVars, post, frames,
                 panicked, doneBy, histVars, headFrames>>
  /\ UNCHANGED <<rlVars, extVars>>

\* handlePublicHTTPRequest: http.Error(w, "Gateway Timeout", 504) and return.
publicTimeoutReply(t) ==
  /\ ~panicked
  /\ req[t].pc = "timedout"
  /\ writers' = [writers EXCEPT
        ![t] = HttpError(@, "Gateway Timeout", StatusGatewayTimeout)]
  /\ req' = SetReq(t, [req[t] EXCEPT !.pc = "returned", !.result = "timeout"])
  /\ UNCHANGED <<wsVars, streamHandlers, nextRequestID, done, lpVars, post,
                 frames, panicked, doneBy, histVars, headFrames>>
  /\ UNCHANGED <<rlVars, extVars>>

\* ------------------------------------------------------ long-poll transport
\* handleHTTPTunnelRegister: a new client replaces the entry; the channels of
\* the replaced client are closed.
handleHTTPTunnelRegister(key) ==
  /\ ~panicked
  /\ nextClient < limit.clients
  /\ LET oldClient == clients[key]
         client == nextClient + 1
     IN /\ chanClosed' = IF oldClient = 0 THEN chanClosed
                         ELSE [chanClosed EXCEPT ![oldClient] = TRUE]
        /\ clients' = [clients EXCEPT ![key] = client]
        /\ nextClient' = client
        /\ lastSeen' = [lastSeen EXCEPT ![client] = now]
        \* go p.cleanupHTTPTunnelClient(key): its ticker fires every minute
        /\ sweepers' = [sweepers EXCEPT
              ![client] = [alive |-> TRUE, key |-> key, next |-> now + SweepPeriod]]
  /\ UNCHANGED <<wsVars, streamHandlers, nextRequestID, req, done, writers,
                 pollChan, post, frames, panicked, doneBy, histVars, headFrames>>
  /\ UNCHANGED <<rlVars, config, timeVars, arrived, netVars, calc, locking, poll, outboxLog, pollLog>>

\* handleHTTPTunnelPoll: one queued frame is returned to the polling agent.
handleHTTPTunnelPoll(key) ==
  /\ ~panicked
  /\ clients[key] # 0
  /\ pollChan[clients[key]] # <<>>
  /\ pollChan' = [pollChan EXCEPT ![clients[key]] = Tail(@)]
  /\ pollLog' = [pollLog EXCEPT ![clients[key]] = Append(@, Head(pollChan[clients[key]]))]
  /\ lastSeen' = [lastSeen EXCEPT ![clients[key]] = now]
  /\ UNCHANGED <<wsVars, streamHandlers, nextRequestID, req, done, writers,
                 clients, chanClosed, nextClient, post, frames, panicked, doneBy,
                 histVars, headFrames>>
  /\ UNCHANGED <<rlVars, config, timeVars, arrived, netVars, calc, locking, poll, outboxLog, sweepers>>

\* The rest of the state when a poll handler takes a step.
pollFrame ==
  UNCHANGED <<rlVars, config, timeVars, arrived, netVars, calc, locking, outboxLog, sweepers, wsVars,
              streamHandlers, nextRequestID, req, done, writers, clients, chanClosed,
              nextClient, post, frames, doneBy, histVars, headFrames>>

\* handleHTTPTunnelPoll, a GET /http-tunnel/poll/{key}: the lookup under the
\* manager's RLock (404 when the key has no client), then client.lastSeen is
\* set under its Lock and the 30 s timer is started.
pollLookup(q, key) ==
  /\ ~panicked
  /\ q <= limit.polls
  /\ poll[q].pc = "idle"
  /\ \A r \in 1..(q - 1) : poll[r].pc # "idle"
  /\ LET client == clients[key]
     IN IF client = 0
        THEN /\ poll' = [poll EXCEPT ![q] = [@ EXCEPT !.pc = "returned", !.key = key,
                                                      !.status = StatusNotFound]]
             /\ UNCHANGED lastSeen
        ELSE /\ poll' = [poll EXCEPT ![q] = [@ EXCEPT !.pc = "wait", !.key = key,
                                                      !.client = client,
                                                      !.deadline = now + PollWait]]
             /\ lastSeen' = [lastSeen EXCEPT ![client] = now]
  /\ UNCHANGED <<pollChan, pollLog, panicked>>
  /\ pollFrame

\* A receive that leaves the frame in the channel.
Dequeue_Keep(ch) == ch

\* The channel after `msg := <-client.pollChan` has taken its first frame.
Dequeue(ch) == Tail(ch)

\* handleHTTPTunnelPoll: case msg := <-client.pollChan.  A frame is taken and
\* returned with 200; a closed and empty channel yields nil, and *msg panics.
pollReceive(q) ==
  /\ ~panicked
  /\ q <= limit.polls
  /\ poll[q].pc = "wait"
  /\ LET c == poll[q].client
     IN /\ pollChan[c] # <<>> \/ chanClosed[c]
        /\ IF pollChan[c] # <<>>
           THEN /\ pollChan' = [pollChan EXCEPT ![c] = Dequeue(@)]
                /\ pollLog' = [pollLog EXCEPT ![c] = Append(@, Head(pollChan[c]))]
                /\ poll' = [poll EXCEPT ![q] = [@ EXCEPT !.pc = "returned",
                                                         !.status = StatusOK,
                                                         !.msg = Head(pollChan[c])]]
                /\ UNCHANGED panicked
           ELSE /\ panicked' = TRUE
                /\ UNCHANGED <<pollChan, pollLog, poll>>
  /\ UNCHANGED lastSeen
  /\ pollFrame

\* handleHTTPTunnelPoll: case <-timer.C, 204 after the 30 s wait.
pollTimeout(q) ==
  /\ ~panicked
  /\ q <= limit.polls
  /\ poll[q].pc = "wait"
  /\ now >= poll[q].deadline
  /\ poll' = [poll EXCEPT ![q] = [@ EXCEPT !.pc = "returned", !.status = StatusNoContent]]
  /\ UNCHANGED <<pollChan, pollLog, lastSeen, panicked>>
  /\ pollFrame

\* handleHTTPTunnelPoll: case <-r.Context().Done(), the agent gave up.
pollCancel(q) ==
  /\ ~panicked
  /\ q <= limit.polls
  /\ poll[q].pc = "wait"
  /\ poll' = [poll EXCEPT ![q] = [@ EXCEPT !.pc = "returned"]]
  /\ UNCHANGED <<pollChan, pollLog, lastSeen, panicked>>
  /\ pollFrame

\* cleanupHTTPTunnelClient: the ticker of the goroutine that registration i
\* started fires; under the manager's Lock the goroutine ends when its key
\* has no client, and removes the client when it was last seen more than
\* five minutes ago.
cleanupHTTPTunnelClient(i) ==
  /\ ~panicked
  /\ i <= limit.clients
  /\ sweepers[i].alive
  /\ now >= sweepers[i].next
  /\ LET key == sweepers[i].key
         client == clients[key]
     IN IF client = 0
        THEN /\ sweepers' = [sweepers EXCEPT ![i].alive = FALSE]
             /\ UNCHANGED <<clients, chanClosed>>
        ELSE IF now - lastSeen[client] > ClientIdle
        THEN \* close(client.pollChan); close(client.responseChan); delete
             /\ chanClosed' = [chanClosed EXCEPT ![client] = TRUE]
             /\ clients' = [clients EXCEPT ![key] = 0]
             /\ sweepers' = [sweepers EXCEPT ![i].alive = FALSE]
        ELSE /\ sweepers' = [sweepers EXCEPT ![i].next = @ + SweepPeriod]
             /\ UNCHANGED <<clients, chanClosed>>
  /\ UNCHANGED <<rlVars, config, timeVars, arrived, netVars, calc, locking, poll, outboxLog, pollLog, lastSeen,
                 wsVars, streamHandlers, nextRequestID, req, done, writers, pollChan,
                 nextClient, post, frames, panicked, doneBy, histVars, headFrames>>

\* handleHTTPTunnelResponse: the frame posted for a registered key, then the
\* lookup of its handler in handleHTTPTunnelMessage under handlersMu.
handleHTTPTunnelResponse(key, f) ==
  /\ ~panicked
  /\ post.pc = "idle"
  /\ clients[key] # 0
  /\ lastSeen' = [lastSeen EXCEPT ![clients[key]] = now]
  /\ frames < limit.frames
  /\ frames' = frames + 1
  /\ recvChunks' = ArrivedChunks(f)
  /\ eosSeen' = ArrivedEos(f)
  /\ post' = IF streamHandlers[f.id] = 0 THEN NoPost
             ELSE [pc |-> "apply", msg |-> f, handler |-> streamHandlers[f.id]]
  /\ UNCHANGED <<wsVars, streamHandlers, nextRequestID, req, done, writers,
                 lpVars, panicked, limit, doneBy, replaced, headFrames>>
  /\ UNCHANGED <<rlVars, config, timeVars, arrived, netVars, calc, locking, poll, outboxLog, pollLog, sweepers>>

\* handleHTTPTunnelMessage after the lookup: the frame is written to the
\* handler's writer outside handlersMu; no branch deletes the sink.
handleHTTPTunnelMessage ==
  /\ ~panicked
  /\ post.pc = "apply"
  /\ post' = NoPost
  /\ LET msg == post.msg
         h == post.handler
         open == PublicConnOpen(h)
     IN IF msg.type = MSG_TYPE_HTTP_RES
        THEN IF ~msg.payload.ok
             THEN \* close(handler.done)
                  /\ panicked' = done[h]
                  /\ done' = [done EXCEPT ![h] = TRUE]
                  /\ doneBy' = [doneBy EXCEPT ![h] = IF done[h] THEN @ ELSE "lpbadhead"]
                  /\ UNCHANGED <<limit, writers, headFrames>>
             ELSE \* WriteHeader, Write(body), Flush, close(handler.done)
                  /\ writers' = [writers EXCEPT
                        ![h] = IF msg.payload.body = <<>>
                               THEN WriteHeader(@, msg.payload.status)
                               ELSE Write(WriteHeader(@, msg.payload.status),
                                          msg.payload.body, open)]
                  /\ headFrames' = [headFrames EXCEPT ![h] = @ + 1]
                  /\ panicked' = done[h]
                  /\ done' = [done EXCEPT ![h] = TRUE]
                  /\ doneBy' = [doneBy EXCEPT ![h] = IF done[h] THEN @ ELSE "lpdone"]
        ELSE IF msg.payload # <<>>
        THEN \* Write(msg.Payload); a write error closes handler.done
             /\ writers' = [writers EXCEPT ![h] = Write(@, msg.payload, open)]
             /\ panicked' = (~open /\ done[h])
             /\ done' = [done EXCEPT ![h] = @ \/ ~open]
             /\ doneBy' = [doneBy EXCEPT ![h] = IF ~open /\ ~done[h] THEN "lpwriteerr" ELSE @]
             /\ UNCHANGED headFrames
        ELSE UNCHANGED <<writers, done, doneBy, panicked, headFrames>>
  /\ UNCHANGED <<wsVars, streamHandlers, nextRequestID, req, lpVars, frames,
                 histVars>>
  /\ UNCHANGED <<rlVars, extVars>>

\* ------------------------------------------------------------------- Next
Next ==
  \/ \E c \in Conns, key \in Keys : handleTunnelRegistration(c, key)
  \/ \E c \in Conns, f \in AgentFrames : clientReadLoopRead(c, f)
  \/ \E c \in Conns : clientReadLoopApply(c)
  \/ \E c \in Conns : clientReadLoopExit(c)
  \/ \E t \in Tasks, key \in Keys : publicLookupWS(t, key)
  \/ \E t \in Tasks : publicLookupHTTP(t)
  \/ \E t \in Tasks : publicAllocID(t)
  \/ \E t \in Tasks : publicRegisterSink(t)
  \/ \E t \in Tasks : publicDispatch(t)
  \/ \E t \in Tasks : publicAwaitDone(t)
  \/ \E t \in Tasks : publicTimeout(t)
  \/ \E t \in Tasks : publicTimeoutReply(t)
  \/ \E key \in Keys : handleHTTPTunnelRegister(key)
  \/ \E key \in Keys : handleHTTPTunnelPoll(key)
  \/ \E key \in Keys, f \in AgentFrames : handleHTTPTunnelResponse(key, f)
  \/ handleHTTPTunnelMessage

Spec == Init /\ [][Next]_vars

\* The persistent transport alone: no long-poll client ever registers.
NextWS ==
  \/ \E c \in Conns, key \in Keys : handleTunnelRegistration(c, key)
  \/ \E c \in Conns, f \in AgentFrames : clientReadLoopRead(c, f)
  \/ \E c \in Conns : clientReadLoopApply(c)
  \/ \E c \in Conns : clientReadLoopExit(c)
  \/ \E t \in Tasks, key \in Keys : publicLookupWS(t, key)
  \/ \E t \in Tasks : publicLookupHTTP(t)
  \/ \E t \in Tasks : publicAllocID(t)
  \/ \E t \in Tasks : publicRegisterSink(t)
  \/ \E t \in Tasks : publicDispatch(t)
  \/ \E t \in Tasks : publicAwaitDone(t)
  \/ \E t \in Tasks : publicTimeout(t)
  \/ \E t \in Tasks : publicTimeoutReply(t)

SpecWS == InitWS /\ [][NextWS]_vars

\* The long-poll transport alone: no WebSocket agent ever connects.
NextLP ==
  \/ \E t \in Tasks, key \in Keys : publicLookupWS(t, key)
  \/ \E t \in Tasks : publicLookupHTTP(t)
  \/ \E t \in Tasks : publicAllocID(t)
  \/ \E t \in Tasks : publicRegisterSink(t)
  \/ \E t \in Tasks : publicDispatch(t)
  \/ \E t \in Tasks : publicAwaitDone(t)
  \/ \E t \in Tasks : publicTimeout(t)
  \/ \E t \in Tasks : publicTimeoutReply(t)
  \/ \E key \in Keys : handleHTTPTunnelRegister(key)
  \/ \E key \in Keys : handleHTTPTunnelPoll(key)
  \/ \E key \in Keys, f \in AgentFrames : handleHTTPTunnelResponse(key, f)
  \/ handleHTTPTunnelMessage

SpecLP == InitLP /\ [][NextLP]_vars

\* Rate limiting switched on, no agent registered: every admitted request
\* finds no tunnel.
InitRL ==
  InitWith([conns |-> 0, reqs |-> LimitedReqs, frames |-> 0, clients |-> 0,
            limited |-> TRUE])

NextRL ==
  \/ \E t \in Tasks, ip \in IPs, header \in Headers :
        publicCheckIPLimit(t, ip, header, "", "")
  \/ \E t \in Tasks : publicCheckKeyLimit(t)
  \/ \E ip \in IPs : ipLimiterRefill(ip)
  \/ \E key \in Headers : keyLimiterRefill(key)
  \/ \E t \in Tasks, key \in Keys : publicLookupWS(t, key)
  \/ \E t \in Tasks : publicLookupHTTP(t)

SpecRL == InitRL /\ [][NextRL]_vars

\* Rate limiting switched on, persistent agents that send nothing.
InitRLDispatch ==
  InitWith([conns |-> LimitedConns, reqs |-> MaxReqs, frames |-> 0, clients |-> 0,
            limited |-> TRUE])

NextRLDispatch ==
  \/ \E t \in Tasks, ip \in IPs, header \in Headers :
        publicCheckIPLimit(t, ip, header, "", "")
  \/ \E t \in Tasks : publicCheckKeyLimit(t)
  \/ \E ip \in IPs : ipLimiterRefill(ip)
  \/ \E key \in Headers : keyLimiterRefill(key)
  \/ \E c \in Conns, key \in Keys : handleTunnelRegistration(c, key)
  \/ \E c \in Conns : clientReadLoopExit(c)
  \/ \E t \in Tasks, key \in Keys : publicLookupWS(t, key)
  \/ \E t \in Tasks : publicLookupHTTP(t)
  \/ \E t \in Tasks : publicAllocID(t)
  \/ \E t \in Tasks : publicRegisterSink(t)
  \/ \E t \in Tasks : publicDispatch(t)
  \/ \E t \in Tasks : publicTimeout(t)
  \/ \E t \in Tasks : publicTimeoutReply(t)

SpecRLDispatch == InitRLDispatch /\ [][NextRLDispatch]_vars

\* Rate limiting switched on and the clock followed second by second, no
\* agent registered.
InitRLTime ==
  InitWith([conns |-> 0, reqs |-> TimedReqs, frames |-> 0, clients |-> 0,
            limited |-> TRUE, until |-> MaxSeconds, inflight |-> TimedInFlight])

NextRLTime ==
  \/ \E t \in Tasks, ip \in IPs, header \in Headers :
        publicCheckIPLimit(t, ip, header, "", "")
  \/ \E t \in Tasks : publicCheckKeyLimit(t)
  \/ timePasses(1)
  \/ \E t \in Tasks, key \in Keys : publicLookupWS(t, key)
  \/ \E t \in Tasks : publicLookupHTTP(t)

SpecRLTime == InitRLTime /\ [][NextRLTime]_vars

\* Rate limiting with one or both rates configured as 0, no agent registered.
InitRLOff ==
  \E cfg \in {Rates(0, 0), Rates(0, KeyRateLimit), Rates(IPRateLimit, 0)} :
    InitConfig([conns |-> 0, reqs |-> LimitedReqs, frames |-> 0, clients |-> 0,
                limited |-> TRUE], cfg)

NextRLOff ==
  \/ \E t \in Tasks, ip \in IPs, header \in Headers :
        publicCheckIPLimit(t, ip, header, "", "")
  \/ \E t \in Tasks : publicCheckKeyLimit(t)
  \/ \E t \in Tasks, key \in Keys : publicLookupWS(t, key)
  \/ \E t \in Tasks : publicLookupHTTP(t)

SpecRLOff == InitRLOff /\ [][NextRLOff]_vars

\* Rate limiting switched on, requests that carry forwarding headers, no
\* agent registered.
InitRLForwarded ==
  InitWith([conns |-> 0, reqs |-> LimitedReqs, frames |-> 0, clients |-> 0,
            limited |-> TRUE, inflight |-> TimedInFlight])

NextRLForwarded ==
  \/ \E t \in Tasks, ip \in IPs, xff \in IPs \cup {""}, xri \in IPs \cup {""} :
        publicCheckIPLimit(t, ip, "alpha", xff, xri)
  \/ \E t \in Tasks : publicCheckKeyLimit(t)
  \/ \E t \in Tasks, key \in Keys : publicLookupWS(t, key)
  \/ \E t \in Tasks : publicLookupHTTP(t)

SpecRLForwarded == InitRLForwarded /\ [][NextRLForwarded]_vars

\* The long-poll transport with an agent that is behind: QueuedFrames frames
\* wait un-polled when the run starts.
InitLPFull ==
  InitBacklog([conns |-> 0, reqs |-> OutboxReqs, frames |-> 0, clients |-> 1,
               limited |-> FALSE],
              Rates(IPRateLimit, KeyRateLimit), QueuedFrames)

NextLPFull ==
  \/ \E t \in Tasks, key \in Keys : publicLookupWS(t, key)
  \/ \E t \in Tasks : publicLookupHTTP(t)
  \/ \E t \in Tasks : publicAllocID(t)
  \/ \E t \in Tasks : publicRegisterSink(t)
  \/ \E t \in Tasks : publicDispatch(t)
  \/ \E t \in Tasks : publicTimeout(t)
  \/ \E t \in Tasks : publicTimeoutReply(t)
  \/ \E key \in Keys : handleHTTPTunnelPoll(key)

SpecLPFull == InitLPFull /\ [][NextLPFull]_vars

\* The long-poll transport with the poll handler followed step by step: one
\* registration, concurrent polls, and the clock up to the wait of a poll.
InitPoll ==
  InitWith([conns |-> 0, reqs |-> MaxReqs, frames |-> 0, clients |-> MaxClients,
            limited |-> FALSE, polls |-> MaxPolls, until |-> PollWait])

NextPoll ==
  \/ \E t \in Tasks, key \in Keys : publicLookupWS(t, key)
  \/ \E t \in Tasks : publicLookupHTTP(t)
  \/ \E t \in Tasks : publicAllocID(t)
  \/ \E t \in Tasks : publicRegisterSink(t)
  \/ \E t \in Tasks : publicDispatch(t)
  \/ \E t \in Tasks : publicTimeout(t)
  \/ \E t \in Tasks : publicTimeoutReply(t)
  \/ \E key \in Keys : handleHTTPTunnelRegister(key)
  \/ \E q \in Polls, key \in Keys : pollLookup(q, key)
  \/ \E q \in Polls : pollReceive(q)
  \/ \E q \in Polls : pollTimeout(q)
  \/ \E q \in Polls : pollCancel(q)
  \/ timePasses(PollWait)

SpecPoll == InitPoll /\ [][NextPoll]_vars

\* The long-poll transport with an agent that registers again.
InitLPReplace ==
  InitWith([conns |-> 0, reqs |-> MaxReqs, frames |-> 0, clients |-> ReplacedClients,
            limited |-> FALSE, polls |-> MaxPolls])

NextLPReplace ==
  \/ \E t \in Tasks, key \in Keys : publicLookupWS(t, key)
  \/ \E t \in Tasks : publicLookupHTTP(t)
  \/ \E t \in Tasks : publicAllocID(t)
  \/ \E t \in Tasks : publicRegisterSink(t)
  \/ \E t \in Tasks : publicDispatch(t)
  \/ \E t \in Tasks : publicTimeout(t)
  \/ \E t \in Tasks : publicTimeoutReply(t)
  \/ \E key \in Keys : handleHTTPTunnelRegister(key)
  \/ \E q \in Polls, key \in Keys : pollLookup(q, key)
  \/ \E q \in Polls : pollReceive(q)
  \/ \E q \in Polls : pollCancel(q)

SpecLPReplace == InitLPReplace /\ [][NextLPReplace]_vars

\* The long-poll transport with its reaper, the clock followed in steps of
\* the wait of a poll.
InitLPReap ==
  InitWith([conns |-> 0, reqs |-> MixedReqs, frames |-> 0, clients |-> MaxClients,
            limited |-> FALSE, polls |-> MaxClients, until |-> MaxSweeps * SweepPeriod])

NextLPReap ==
  \/ \E t \in Tasks, key \in Keys : publicLookupWS(t, key)
  \/ \E t \in Tasks : publicLookupHTTP(t)
  \/ \E t \in Tasks : publicAllocID(t)
  \/ \E t \in Tasks : publicRegisterSink(t)
  \/ \E t \in Tasks : publicDispatch(t)
  \/ \E t \in Tasks : publicTimeout(t)
  \/ \E t \in Tasks : publicTimeoutReply(t)
  \/ \E key \in Keys : handleHTTPTunnelRegister(key)
  \/ \E q \in Polls, key \in Keys : pollLookup(q, key)
  \/ \E q \in Polls : pollReceive(q)
  \/ \E q \in Polls : pollTimeout(q)
  \/ \E q \in Polls : pollCancel(q)
  \/ \E i \in Clients : cleanupHTTPTunnelClient(i)
  \/ timePasses(PollWait)

SpecLPReap == InitLPReap /\ [][NextLPReap]_vars

\* The persistent transport with its keepalive, the clock followed in steps
\* of the agent's ticker.
InitKeepAlive ==
  InitWith([conns |-> TunnelConns, reqs |-> 0, frames |-> TunnelFrames, clients |-> 0,
            limited |-> FALSE, until |-> MaxTicks * KeepAlivePeriod, pongs |-> MaxPongs])

NextKeepAlive ==
  \/ \E c \in Conns, key \in Keys : handleTunnelRegistration(c, key)
  \/ \E c \in Conns, f \in AgentFrames : clientReadLoopRead(c, f)
  \/ \E c \in Conns : clientReadLoopApply(c)
  \/ \E c \in Conns : clientReadLoopExit(c)
  \/ \E c \in Conns : clientReadLoopTimeout(c)
  \/ \E c \in Conns : pongHandler(c)
  \/ \E c \in Conns : keepAlive(c)
  \/ timePasses(KeepAlivePeriod)

SpecKeepAlive == InitKeepAlive /\ [][NextKeepAlive]_vars

\* The listener and the protocol detection of its connections.
InitDetect ==
  InitWith([conns |-> 0, reqs |-> 0, frames |-> 0, clients |-> 0, limited |-> FALSE,
            until |-> 2 * DetectTimeout, socks |-> MaxSocks])

NextDetect ==
  \/ \E x \in 1..MaxSocks : acceptConnection(x)
  \/ \E x \in 1..MaxSocks, data \in FirstReads : handleConnection(x, data)
  \/ \E x \in 1..MaxSocks : handleConnectionReadError(x)
  \/ timePasses(DetectTimeout)

SpecDetect == InitDetect /\ [][NextDetect]_vars

\* The router, for every path of up to three segments.
InitRoute ==
  \E path \in Paths :
    InitCall([fn |-> "ServeHTTP", pc |-> "call", path |-> path,
              out |-> [handler |-> "", key |-> <<>>]])

NextRoute == serveHTTP

SpecRoute == InitRoute /\ [][NextRoute]_vars

\* The codec, started from a frame or from received bytes; first keeps what
\* it was started from.
InitCodec ==
  \/ \E msg \in CodecMessages :
       InitCall([fn |-> "codec", pc |-> "msg", trips |-> 0, msg |-> msg,
                 data |-> <<>>, first |-> [msg |-> msg]])
  \/ \E data \in RawData :
       InitCall([fn |-> "codec", pc |-> "data", trips |-> 0, msg |-> NoMessage,
                 data |-> data, first |-> [data |-> data]])

NextCodec ==
  \/ serializeTunnelMessage
  \/ deserializeTunnelMessage

SpecCodec == InitCodec /\ [][NextCodec]_vars

\* The persistent transport with the write of the request frame followed
\* from its beginning to its return.
InitWSWrite ==
  InitWith([conns |-> MaxConns, reqs |-> MaxReqs, frames |-> 0, clients |-> 0,
            limited |-> FALSE])

NextWSWrite ==
  \/ \E c \in Conns, key \in Keys : handleTunnelRegistration(c, key)
  \/ \E c \in Conns : clientReadLoopExit(c)
  \/ \E t \in Tasks, key \in Keys : publicLookupWS(t, key)
  \/ \E t \in Tasks : publicLookupHTTP(t)
  \/ \E t \in Tasks : publicAllocID(t)
  \/ \E t \in Tasks : publicRegisterSink(t)
  \/ \E t \in Tasks : publicWriteBegin(t)
  \/ \E t \in Tasks : publicWriteEnd(t)
  \/ \E t \in Tasks : publicAwaitDone(t)
  \/ \E t \in Tasks : publicTimeout(t)
  \/ \E t \in Tasks : publicTimeoutReply(t)

SpecWSWrite == InitWSWrite /\ [][NextWSWrite]_vars

\* A connection handed over by the dispatcher with its peeked bytes in
\* front, read with buffers of every size; first keeps what it started with.
InitReplay ==
  \E p \in 1..PeekedLen, q \in 0..SocketLen :
    InitCall([fn |-> "prefixedConn", prefix |-> PeekedBytes(p), prefixRead |-> FALSE,
              socket |-> SocketBytes(q), reads |-> 0, last |-> <<>>, got |-> <<>>,
              first |-> PeekedBytes(p) \o SocketBytes(q)])

NextReplay == \E size \in 0..MaxBuf, n \in 0..MaxBuf : prefixedConnRead(size, n)

SpecReplay == InitReplay /\ [][NextReplay]_vars

\* The select that ends handlePublicHTTPRequest takes a case that is ready,
\* and the reply after the timeout is written: these steps are not put off
\* for ever.
FairReturn ==
  /\ WF_vars(\E t \in Tasks : publicAwaitDone(t))
  /\ WF_vars(\E t \in Tasks : publicTimeout(t))
  /\ WF_vars(\E t \in Tasks : publicTimeoutReply(t))

\* One request on the long-poll transport, and on the persistent transport,
\* with that fairness.
InitLPLive ==
  InitWith([conns |-> 0, reqs |-> MixedReqs, frames |-> MaxFrames,
            clients |-> MaxClients, limited |-> FALSE])

SpecLPLive == InitLPLive /\ [][NextLP]_vars /\ FairReturn

InitWSLive ==
  InitWith([conns |-> MaxConns, reqs |-> MixedReqs, frames |-> MaxFrames,
            clients |-> 0, limited |-> FALSE])

SpecWSLive == InitWSLive /\ [][NextWS]_vars /\ FairReturn

\* Goroutines that run the handlers, one lock operation at a time.
InitLocks ==
  InitWith([conns |-> 0, reqs |-> 0, frames |-> 0, clients |-> 0, limited |-> FALSE,
            threads |-> LockThreads])

NextLocks ==
  \/ \E th \in 1..LockThreads, proc \in Handlers : handlerStarts(th, proc)
  \/ \E th \in 1..LockThreads : lockStep(th)

SpecLocks == InitLocks /\ [][NextLocks]_vars

\* ================================================================ claims
BodyBytes == {"a", "b", "x"}

\* C1: no key has a persistent entry and a long-poll entry at the same time.
C1_OneEndpointPerKey ==
  \A k \in Keys : ~(clientConns[k] # 0 /\ clients[k] # 0)

\* C2: when a persistent agent registers for a key that another persistent
\* agent holds, the step that completes the registration leaves the prior
\* agent's stream closed and the registry mapping the key to the new agent.
\* A closed stream is unreadable: its reader gets no further frame.
C2_ReplacementClosesPrior ==
  [][/\ \A c \in Conns, k \in Keys :
          (connState[c] = "new" /\ connState'[c] = "open" /\ connKey'[c] = k
             /\ clientConns[k] # 0)
          => (connState'[clientConns[k]] = "closed" /\ clientConns'[k] = c)
     /\ \A c \in Conns :
          connState[c] = "closed" => ~(rdPc[c] = "read" /\ rdPc'[c] = "apply")]_vars

\* C2 witness: a registration has replaced an agent: the prior stream is
\* closed and unreadable, the key maps to the open stream of the new agent.
C2_Witness ==
  \E a \in Conns, b \in Conns :
    /\ a # b /\ a \in replaced /\ connKey[a] = connKey[b]
    /\ connState[a] = "closed" /\ connState[b] = "open"
    /\ clientConns[connKey[b]] = b

\* C3: a registry entry is removed only when the transport that owns it
\* ends: as long as an agent's stream is open, its key maps to it (in
\* particular after it replaced a prior agent whose reader task then ends).
C3_EntryLivesWithOwner ==
  \A b \in Conns : connState[b] = "open" => clientConns[connKey[b]] = b

\* C4: once a registration has replaced an agent, no frame read from the
\* replaced agent is applied: its reader changes no response, no completion
\* signal and no sink.
C4_NoFrameFromReplaced ==
  [][\A c \in Conns :
       (c \in replaced /\ rdPc[c] = "apply" /\ rdPc'[c] = "read")
       => (writers' = writers /\ done' = done
             /\ streamHandlers' = streamHandlers)]_vars

\* C5: a request dispatched to an agent that is replaced before any head
\* frame was applied ends with status 502; with a head applied, nothing but
\* body bytes of the agent follows the head.
C5_ReplacedRequestGets502 ==
  \A t \in Tasks :
    (req[t].pc = "returned" /\ doneBy[t] = "replace" /\ req[t].wsConn \in replaced)
    => IF headFrames[t] = 0
       THEN writers[t].statusCode = StatusBadGateway
       ELSE \A i \in DOMAIN writers[t].body : writers[t].body[i] \in BodyBytes

\* C6: replacing the agent of a key fails only sinks of requests for that
\* key: when a replacement fails the sink of a dispatched request, the entry
\* replaced in that step is the entry of the request's key.
C6_OnlyRoutedSinksFailed ==
  [][\A t \in Tasks :
       (req[t].pc = "await" /\ ~done[t] /\ done'[t] /\ doneBy'[t] = "replace")
       => \E c \in replaced' \ replaced : connKey[c] = req[t].key]_vars

\* C7: when a persistent agent's stream ends without replacement, its
\* registry entry is gone and every request waiting on it has been failed.
C7_StreamEndFailsSinks ==
  \A c \in Conns :
    (rdPc[c] = "exited" /\ c \notin replaced)
    => /\ clientConns[connKey[c]] # c
       /\ \A t \in Tasks :
            (req[t].pc = "await" /\ req[t].wsConn = c)
            => (done[t] /\ streamHandlers[req[t].requestID] # t)

\* C8: the body of a request that completed successfully is the
\* concatenation, in arrival order, of the kind-3 payloads received for its id.
C8_BodyIsConcatenation ==
  \A t \in Tasks :
    (req[t].pc = "returned" /\ req[t].result = "completed"
       /\ doneBy[t] \in {"eos", "lpdone"})
    => writers[t].body = recvChunks[req[t].requestID]

\* C9: a second kind-2 frame for the same request id terminates the sink:
\* the sink is removed and its completion signalled.
C9_SecondHeadTerminates ==
  \A t \in Tasks :
    headFrames[t] >= 2
    => (done[t] /\ streamHandlers[req[t].requestID] # t)

\* C10: no payload of a kind-3 frame is on a public response unless a kind-2
\* frame has been applied for that request before.
C10_HeadBeforeBody ==
  \A t \in Tasks :
    (\E i \in DOMAIN writers[t].body : writers[t].body[i] \in BodyBytes)
    => headFrames[t] >= 1

\* A step in which a frame is applied: the reader of a connection or the
\* long-poll handler finishes the application of the frame it holds.
FrameApplied ==
  \/ post.pc = "apply" /\ post'.pc = "idle"
  \/ \E c \in Conns : rdPc[c] = "apply" /\ rdPc'[c] = "read"

\* C11: no frame is applied for a request id whose sink has been removed: a
\* step that applies a frame writes to a public response only if the sink of
\* that response is in the pending table when the step is taken.
C11_NoWriteAfterRemoval ==
  [][\A t \in Tasks :
       (FrameApplied /\ writers'[t] # writers[t])
       => streamHandlers[req[t].requestID] = t]_vars

\* C13: once a head frame has been forwarded, the expiry of the deadline
\* writes nothing to the public response: no status line and no further byte.
C13_TimeoutAfterHeadWritesNothing ==
  [][\A t \in Tasks :
       (headFrames[t] >= 1 /\ req[t].pc = "timedout" /\ req'[t].pc = "returned")
       => writers'[t] = writers[t]]_vars

\* C14: no sink remains in the pending table after its public request has
\* finished.
C14_NoSinkAfterReturn ==
  \A t \in Tasks :
    req[t].pc = "returned" => \A r \in ReqIds : streamHandlers[r] # t

\* The deadline of request t has expired.
TimedOut(t) ==
  \/ req[t].pc = "timedout"
  \/ req[t].pc = "returned" /\ req[t].result = "timeout"

\* C12: when the deadline of a dispatched request expires and no frame has
\* touched its response, the request ends with status 504; its sink is out
\* of the pending table from the expiry on, and a frame that arrives later
\* for its id is dropped: the long-poll handler finds no sink for it and the
\* reader of a connection applies it to nothing.
C12_TimeoutGives504 ==
  [][\A t \in Tasks :
       /\ (req[t].pc = "timedout" /\ req'[t].pc = "returned"
              /\ writers[t] = NewWriter)
          => /\ writers'[t].statusCode = StatusGatewayTimeout
             /\ writers'[t].body = <<"Gateway Timeout">>
       /\ (req[t].pc = "await" /\ req'[t].pc = "timedout")
          => streamHandlers'[req[t].requestID] # t
       /\ TimedOut(t)
          => /\ streamHandlers'[req[t].requestID] # t
             /\ (post.pc = "idle" /\ frames' = frames + 1) => post'.handler # t
             /\ \A c \in Conns :
                  (rdPc[c] = "apply" /\ rdPc'[c] = "read"
                     /\ rdMsg[c].id = req[t].requestID)
                  => (writers'[t] = writers[t] /\ done' = done)]_vars

\* C12 witness: a request has ended with 504 on its deadline and a reader
\* holds a frame for its id that is still to be applied.
C12_Witness ==
  \E t \in Tasks, c \in Conns :
    /\ req[t].pc = "returned" /\ req[t].result = "timeout"
    /\ writers[t].statusCode = StatusGatewayTimeout
    /\ rdPc[c] = "apply" /\ rdMsg[c].id = req[t].requestID

\* C15: request ids are assigned strictly increasing from 1: the counter
\* never decreases, every assigned id lies in 1..counter, and no two
\* requests hold the same id.
C15_RequestIdsUnique ==
  [][/\ nextRequestID' >= nextRequestID
     /\ \A t \in Tasks :
          /\ req'[t].requestID \in 0..nextRequestID'
          /\ req[t].requestID # 0 => req'[t].requestID = req[t].requestID
          /\ (req[t].requestID = 0 /\ req'[t].requestID # 0)
             => req'[t].requestID = nextRequestID + 1
     /\ \A t \in Tasks, u \in Tasks :
          (t # u /\ req'[t].requestID # 0)
          => req'[t].requestID # req'[u].requestID]_vars

\* C15 witness: two concurrent requests hold the ids 1 and 2 and both have
\* their sinks in the pending table.
C15_Witness ==
  \E t \in Tasks, u \in Tasks :
    /\ req[t].requestID = 1 /\ req[u].requestID = 2
    /\ streamHandlers[1] = t /\ streamHandlers[2] = u

\* C16: a request for key K is dispatched only to the agent registered under
\* K and is answered by that agent: the connection a request is bound to
\* carries the request's key, and a reader changes the response or the
\* completion signal of a dispatched request only if its connection carries
\* that key.
C16_OwnKeyAgentOnly ==
  [][/\ \A t \in Tasks :
          req'[t].wsConn # 0 => connKey'[req'[t].wsConn] = req'[t].key
     /\ \A c \in Conns, t \in Tasks :
          (rdPc[c] = "apply" /\ rdPc'[c] = "read" /\ req[t].pc = "await"
             /\ (writers'[t] # writers[t] \/ done'[t] # done[t]))
          => connKey[c] = req[t].key]_vars

\* C17: a request whose key has no transport of either kind ends with status
\* 502 and the body "Service unavailable", and changes nothing: no request
\* id is allocated, no sink is added and no frame is queued for an agent.
C17_NoTunnelGives502 ==
  [][\A t \in Tasks :
       (req[t].pc = "lookupHTTP" /\ req[t].wsConn = 0 /\ clients[req[t].key] = 0
          /\ req'[t] # req[t])
       => /\ req'[t].pc = "returned"
          /\ writers'[t].statusCode = StatusBadGateway
          /\ writers'[t].body = <<"Service unavailable">>
          /\ req'[t].requestID = 0
          /\ nextRequestID' = nextRequestID
          /\ streamHandlers' = streamHandlers
          /\ pollChan' = pollChan]_vars

\* C17 witness: a request has ended as "no tunnel" with 502 while another
\* key has an agent and the pending table is empty.
C17_Witness ==
  \E t \in Tasks, k \in Keys :
    /\ req[t].pc = "returned" /\ req[t].result = "notunnel"
    /\ writers[t].statusCode = StatusBadGateway
    /\ req[t].key # k /\ (clientConns[k] # 0 \/ clients[k] # 0)

\* C18: when the write of the HTTP_REQ frame to the persistent transport
\* fails, the sink of the request is removed and the request ends with
\* status 502; no sink of a failed dispatch is in the pending table.
C18_DispatchFailureGives502 ==
  \A t \in Tasks :
    (req[t].pc = "returned" /\ req[t].result = "badgateway")
    => /\ streamHandlers[req[t].requestID] # t
       /\ writers[t].statusCode = StatusBadGateway

\* C19: a request with a missing or empty X-Tunnel-Key header is handled as
\* a request with key "default": the key check charges the "default" limiter
\* and no other, the request carries the key "default" from then on, and the
\* lookup binds it to the agent registered under "default".
C19_EmptyKeyIsDefault ==
  [][\A t \in Tasks :
       req[t].header = ""
       => /\ (req[t].pc = "keylimit" /\ req'[t].pc # "keylimit")
             => /\ req'[t].key = "default"
                /\ keyLimiters'["default"] # NoLimiter
                /\ \A h \in Headers : h # "default" => keyLimiters'[h] = keyLimiters[h]
                /\ req'[t].pc = "admitted" <=>
                     GetLimiter(keyLimiters, "default", KeyRateLimit) >= 1
          /\ (req[t].pc = "admitted" /\ req'[t].pc # "admitted")
             => req'[t].wsConn = clientConns["default"]
          /\ (req[t].pc = "lookupHTTP" /\ req'[t].pc = "returned")
             => (req[t].wsConn = 0 /\ clients["default"] = 0)]_vars

\* C19 witness: a request without a key waits for the answer of the agent
\* registered under "default", after the "default" limiter was charged.
C19_Witness ==
  \E t \in Tasks :
    /\ req[t].header = "" /\ req[t].pc = "await"
    /\ req[t].wsConn # 0 /\ connKey[req[t].wsConn] = "default"
    /\ keyLimiters["default"] # NoLimiter /\ keyLimiters["alpha"] = NoLimiter

\* A bucket holds a token: the limiter of the map, or the full bucket a
\* first request creates.
HasToken(limiters, k, n) == GetLimiter(limiters, k, n) >= 1

\* C20: a request is admitted iff its IP bucket and its key bucket hold a
\* token when they are asked, the IP bucket first: a refusal of the IP bucket
\* ends the request with 429 without touching the key bucket, a refusal of
\* the key bucket ends it with 429, and a refused request has made no
\* lookup, holds no request id and no sink.
C20_AdmittedIffBothBuckets ==
  [][\A t \in Tasks :
       /\ (req[t].pc = "idle" /\ req'[t].pc # "idle")
          => /\ req'[t].pc = "keylimit" <=> HasToken(ipLimiters, req'[t].ip, IPRateLimit)
             /\ req'[t].pc # "keylimit"
                => /\ req'[t].pc = "returned"
                   /\ writers'[t].statusCode = StatusTooManyRequests
                   /\ keyLimiters' = keyLimiters
       /\ (req[t].pc = "keylimit" /\ req'[t].pc # "keylimit")
          => /\ req'[t].pc = "admitted"
                  <=> HasToken(keyLimiters, HeaderKey(req[t].header), KeyRateLimit)
             /\ req'[t].pc # "admitted"
                => /\ req'[t].pc = "returned"
                   /\ writers'[t].statusCode = StatusTooManyRequests
       /\ req'[t].pc \in {"idle", "keylimit"} \/ req'[t].result \in {"iplimited", "keylimited"}
          => /\ req'[t].wsConn = 0 /\ req'[t].httpClient = 0
             /\ req'[t].requestID = 0
             /\ \A r \in ReqIds : streamHandlers'[r] # t
       /\ (req[t].pc \in {"idle", "keylimit"} /\ req'[t] # req[t])
          => (nextRequestID' = nextRequestID /\ streamHandlers' = streamHandlers)]_vars

\* C20 witness: two requests were admitted and found no tunnel, and a third
\* one passed the IP bucket and was refused by the empty key bucket.
C20_Witness ==
  \E t \in Tasks, u \in Tasks, v \in Tasks :
    /\ t # v /\ req[t].result = "notunnel" /\ req[v].result = "notunnel"
    /\ req[u].result = "keylimited"
    /\ writers[u].statusCode = StatusTooManyRequests
    /\ keyLimiters[req[u].key] = 0

\* The tasks that passed the limiter of an IP, or of a key, in the seconds a..b.
IPPassed(ip, a, b) == {t \in Tasks : req[t].ip = ip /\ ipPassAt[t] \in a..b}
KeyPassed(k, a, b) == {t \in Tasks : req[t].key = k /\ keyPassAt[t] \in a..b}

\* C21: with rate R > 0 the requests let through for one key in any window of
\* W seconds number at most R*W + 2R, likewise for one client IP, and a request
\* the IP limiter refuses ends with 429 (with R = 1 the third request of a
\* burst).
C21_WindowBound ==
  /\ \A a \in 0..MaxSeconds, W \in 0..MaxSeconds :
       /\ \A k \in Keys :
            Cardinality(KeyPassed(k, a, a + W))
              <= config.KeyRateLimit * W + 2 * config.KeyRateLimit
       /\ \A ip \in IPs :
            Cardinality(IPPassed(ip, a, a + W))
              <= config.IPRateLimit * W + 2 * config.IPRateLimit
  /\ \A t \in Tasks :
       req[t].result \in {"iplimited", "keylimited"}
         => writers[t].statusCode = StatusTooManyRequests

\* Two requests of one IP pass in the same second, a third is refused with
\* 429 in that second, and a fourth passes one second later.
C21_Witness ==
  \E t, u, v, w \in Tasks :
    /\ Cardinality({t, u, v, w}) = 4
    /\ \A x \in {t, u, v, w} : req[x].ip = req[t].ip
    /\ ipPassAt[t] = 0 /\ ipPassAt[u] = 0
    /\ req[v].result = "iplimited" /\ writers[v].statusCode = StatusTooManyRequests
    /\ ipPassAt[w] = 1
    /\ config.IPRateLimit = 1

\* C22: a limiter whose rate is configured as 0 never refuses, and with both
\* rates 0 no public request ends with status 429.
C22_ZeroRateNeverRefuses ==
  \A t \in Tasks :
    /\ config.IPRateLimit = 0 => req[t].result # "iplimited"
    /\ config.KeyRateLimit = 0 => req[t].result # "keylimited"
    /\ (config.IPRateLimit = 0 /\ config.KeyRateLimit = 0)
         => writers[t].statusCode # StatusTooManyRequests

\* With both rates 0, three requests of one IP for one key have all passed
\* both limiters in the same second and have been answered.
C22_Witness ==
  /\ config = Rates(0, 0)
  /\ \A t \in 1..LimitedReqs :
       /\ req[t].ip = "ip1" /\ req[t].key = "alpha"
       /\ ipPassAt[t] = 0 /\ keyPassAt[t] = 0
       /\ req[t].result = "notunnel"
       /\ writers[t].statusCode = StatusBadGateway

\* C23: the IP whose bucket admits a public request is X-Forwarded-For when
\* present, else X-Real-IP when present, else the host of the socket address;
\* so two requests from different sockets with one X-Forwarded-For value
\* draw on one bucket.
C23_BucketIsClientIP ==
  \A t \in Tasks :
    req[t].pc # "idle"
      => req[t].ip = GetClientIP(arrived[t].xff, arrived[t].xri, arrived[t].remote)

\* The frames a step applies to the sink of task t, by either transport.
AppliedTo(t) ==
  {f \in {post.msg} : post.pc = "apply" /\ post'.pc = "idle" /\ post.handler = t}
    \cup {rdMsg[c] : c \in {d \in Conns : /\ rdPc[d] = "apply" /\ rdPc'[d] = "read"
                                          /\ streamHandlers[rdMsg[d].id] = t}}

\* A frame that ends a response under the rules of the persistent reader: the
\* empty-chunk sentinel or a head that cannot be decoded.
EndsResponse(f) ==
  \/ f.type = MSG_TYPE_HTTP_RES_CHUNK /\ f.payload = <<>>
  \/ f.type = MSG_TYPE_HTTP_RES /\ ~f.payload.ok

\* C24: the long-poll response endpoint applies frames by the rules of the
\* persistent reader: a frame signals completion of a sink only when it is
\* the sentinel (or a malformed head), not before, and that step removes the
\* sink from the pending table.
C24_LongPollAppliesLikeReader ==
  [][\A t \in Tasks :
       (~done[t] /\ done'[t] /\ AppliedTo(t) # {})
         => /\ \A f \in AppliedTo(t) : EndsResponse(f)
            /\ streamHandlers'[req[t].requestID] # t]_vars

\* C25: a long-poll outbox never holds more than 10 frames, and a request
\* dispatched while 10 frames wait un-polled is refused with 503 in that
\* step, its sink is removed and the queued frames are unchanged.
C25_OutboxBounded ==
  [][/\ \A c \in Clients : Len(pollChan'[c]) <= PollChanCap
     /\ \A t \in Tasks :
          (/\ req[t].pc = "dispatch" /\ req'[t].pc # "dispatch"
           /\ req[t].wsConn = 0
           /\ ~chanClosed[req[t].httpClient]
           /\ Len(pollChan[req[t].httpClient]) = PollChanCap)
          => /\ req'[t].pc = "returned"
             /\ writers'[t].statusCode = StatusServiceUnavailable
             /\ streamHandlers'[req[t].requestID] = 0
             /\ pollChan' = pollChan]_vars

\* Ten frames wait in the outbox, none has been polled, and a further
\* request has been refused with 503 and has no sink left.
C25_Witness ==
  \E t \in Tasks :
    /\ req[t].result = "busy"
    /\ writers[t].statusCode = StatusServiceUnavailable
    /\ streamHandlers[req[t].requestID] = 0
    /\ Len(pollChan[req[t].httpClient]) = PollChanCap
    /\ pollChan[req[t].httpClient] = outboxLog[req[t].httpClient]
    /\ \E u \in Tasks : req[u].pc = "await"

\* The polls that returned 200 with a frame of client c.
Returned200(c) ==
  {q \in DOMAIN poll : poll[q].status = StatusOK /\ poll[q].client = c}

\* Every frame accepted into the outbox of a client that is still registered
\* has been returned, in the order of acceptance, by exactly one poll, or is
\* still queued; a poll that returned 200 returned one frame.
DeliveredOnce ==
  \A c \in DOMAIN pollLog :
    ~chanClosed[c] =>
      /\ outboxLog[c] = pollLog[c] \o pollChan[c]
      /\ Cardinality(Returned200(c)) = Len(pollLog[c])
      /\ \A i \in 1..Len(pollLog[c]) :
           Cardinality({q \in Returned200(c) : poll[q].msg = pollLog[c][i]}) = 1

\* C26: each successful poll returns exactly one frame, and while the entry
\* is neither replaced nor reaped every accepted frame is returned by exactly
\* one poll in enqueue order, also with concurrent polls; a poll answers 204
\* only after its 30 s wait and 404 only for an unregistered key, and neither
\* answer changes the outbox.
C26_PollDeliversOnceInOrder ==
  [][/\ DeliveredOnce'
     /\ \A q \in DOMAIN poll :
          (poll[q].pc # "returned" /\ poll'[q].pc = "returned") =>
            /\ poll'[q].status = StatusNoContent
                 => (now >= poll[q].deadline /\ pollChan' = pollChan)
            /\ poll'[q].status = StatusNotFound
                 <=> (poll[q].pc = "idle" /\ clients[poll'[q].key] = 0)
            /\ poll'[q].status = StatusNotFound => pollChan' = pollChan
            /\ poll'[q].status = StatusOK
                 => poll'[q].msg = Head(pollChan[poll[q].client])]_vars

\* Two polls that waited at the same time have returned the two queued
\* frames, one each, and a third poll has returned 204.
C26_Witness ==
  \E c \in DOMAIN pollLog :
    /\ ~chanClosed[c]
    /\ Len(outboxLog[c]) = 2
    /\ pollLog[c] = outboxLog[c]
    /\ \E q, r, z \in DOMAIN poll :
         /\ q # r
         /\ poll[q].status = StatusOK /\ poll[q].msg = pollLog[c][1]
         /\ poll[r].status = StatusOK /\ poll[r].msg = pollLog[c][2]
         /\ poll[q].deadline = poll[r].deadline
         /\ poll[z].status = StatusNoContent

\* The requests that wait on long-poll client c: dispatched to it, their sink
\* in the pending table and not signalled.
AwaitingClient(c) ==
  {t \in Tasks : /\ req[t].pc = "await" /\ req[t].wsConn = 0 /\ req[t].httpClient = c
                 /\ streamHandlers[req[t].requestID] = t /\ ~done[t]}

\* C27: when a long-poll registration replaces the entry of its key, the
\* sinks of the requests queued for or handed to the replaced agent are
\* failed in that step, and no poll that starts afterwards is served from the
\* replaced outbox.
C27_ReplacementFailsSinks ==
  [][/\ \A k \in Keys :
          (clients[k] # 0 /\ clients'[k] # 0 /\ clients'[k] # clients[k])
            => \A t \in AwaitingClient(clients[k]) : done'[t]
     /\ \A q \in DOMAIN poll :
          (poll[q].pc = "idle" /\ poll'[q].pc = "wait")
            => ~chanClosed'[poll'[q].client]]_vars

\* C28: a sweep removes a long-poll entry last seen 300 seconds or more ago
\* and no other, and the removal fails every sink that waits on the entry.
C28_ReaperRemovesIdleAndFailsSinks ==
  [][/\ \A i \in DOMAIN sweepers :
          (sweepers[i].alive /\ sweepers'[i] # sweepers[i]
             /\ clients[sweepers[i].key] # 0)
            => (clients'[sweepers[i].key] = 0
                  <=> now - lastSeen[clients[sweepers[i].key]] >= ClientIdle)
     /\ \A k \in Keys :
          (clients[k] # 0 /\ clients'[k] = 0)
            => /\ now - lastSeen[clients[k]] >= ClientIdle
               /\ \A t \in AwaitingClient(clients[k]) : done'[t]]_vars

\* The part of C28 that holds: the reaper never removes an entry seen less
\* than 300 seconds ago.
ReaperSparesActive ==
  [][\A k \in Keys :
       (clients[k] # 0 /\ clients'[k] = 0) => now - lastSeen[clients[k]] >= ClientIdle]_vars

\* C29: the gateway pings every tunnel every 15 seconds; a tunnel whose agent
\* has answered every ping is never closed by the read deadline; and the
\* deadline closes a tunnel only when 90 seconds have passed without a pong.
C29_AnsweredTunnelSurvives ==
  \A c \in DOMAIN keepalive :
    /\ (connState[c] = "open" /\ rdPc[c] # "none")
         => keepalive[c].pings + 1 >= (now - keepalive[c].openedAt) \div KeepAlivePeriod
    /\ keepalive[c].closedBy = "deadline"
         => /\ keepalive[c].pongs < keepalive[c].pings
            /\ now >= keepalive[c].readDeadline

\* The part of C29 that holds: the deadline closes a tunnel only when 90
\* seconds have passed since its registration and since its last pong.
DeadlineOnlyAfterSilence ==
  \A c \in DOMAIN keepalive :
    keepalive[c].closedBy = "deadline"
      => /\ now >= keepalive[c].readDeadline
         /\ keepalive[c].readDeadline >= keepalive[c].openedAt + serverReadTimeout

\* C30: a connection goes to the SOCKS5 handler exactly when the first byte
\* it delivered is 0x05 and to the HTTP reader when it is any other byte,
\* whatever follows; a connection is closed only when it delivered nothing;
\* and a connection handed over or closed stays where it is.
C30_DispatchByFirstByte ==
  [][\A x \in DOMAIN sock :
       /\ sock'[x].pc = "socks5"
            => sock'[x].prefix # <<>> /\ sock'[x].prefix[1] = SOCKS5Version
       /\ sock'[x].pc = "http"
            => sock'[x].prefix # <<>> /\ sock'[x].prefix[1] # SOCKS5Version
       /\ sock'[x].pc = "closed" => sock'[x].prefix = <<>>
       /\ sock'[x].pc = "read" => sock'[x].prefix = <<>> /\ now' <= sock'[x].deadline
       /\ sock[x].pc \in {"socks5", "http", "closed"} => sock'[x] = sock[x]]_vars

C30_Witness ==
  /\ sock[1].pc = "http" /\ sock[1].prefix = <<4, SOCKS5Version>>
  /\ sock[2].pc = "socks5" /\ sock[2].prefix = <<SOCKS5Version, 4>>
  /\ sock[3].pc = "closed" /\ now = DetectTimeout

\* The patterns of C31 in a path: it ends in /ws/{key}, it contains
\* /http-tunnel/{op}/{key}, it starts with /proxy/.
EndsInWsKey(path) ==
  Len(path) >= 2 /\ path[Len(path) - 1] = "ws" /\ path[Len(path)] # ""
HasHttpTunnel(path) == \E i \in 1..(Len(path) - 2) : path[i] = "http-tunnel"
HasProxy(path) == Len(path) >= 2 /\ path[1] = "proxy"

\* C31: a path that ends in /ws/{key}, behind any prefix, is routed to the
\* persistent registration with that key; a path with /http-tunnel/{op}/{key}
\* goes to the long-poll endpoints and /proxy/... to the forward proxy; only
\* the other paths reach the public-request handler.
C31_RoutesBySuffix ==
  (calc.fn = "ServeHTTP" /\ calc.pc = "done")
    => LET path == calc.path
           out == calc.out
       IN /\ EndsInWsKey(path)
               => /\ out.handler = "handleTunnelRegistration"
                  /\ out.key = <<path[Len(path)]>>
          /\ (HasHttpTunnel(path) /\ ~EndsInWsKey(path))
               => out.handler = "handleHTTPTunnel"
          /\ (HasProxy(path) /\ ~EndsInWsKey(path) /\ ~HasHttpTunnel(path))
               => out.handler = "handleHTTPProxy"
          /\ out.handler = "handlePublicHTTPRequest"
               => ~EndsInWsKey(path) /\ ~HasHttpTunnel(path) /\ ~HasProxy(path)

\* The part of C31 that holds: a root-anchored /ws/{key} is a registration
\* with that key.
RootWsIsRegistration ==
  (calc.fn = "ServeHTTP" /\ calc.pc = "done" /\ Len(calc.path) = 2
     /\ calc.path[1] = "ws")
    => calc.out = [handler |-> "handleTunnelRegistration", key |-> <<calc.path[2]>>]

Writing(c) == {t \in Tasks : req[t].pc = "write" /\ req[t].wsConn = c}

\* C33: at no time are two writes of a request frame to the same persistent
\* transport in progress.
C33_OneWriterPerTransport ==
  \A c \in Conns : Cardinality(Writing(c)) <= 1

\* C34: a sink whose completion signal has fired is not in the pending
\* table.
C34_TerminalSinkLeavesTable ==
  \A r \in ReqIds : streamHandlers[r] # 0 => ~done[streamHandlers[r]]

\* A step that applies a frame to a sink: the reader's on the persistent
\* transport, the response endpoint's on the long-poll transport.
AppliesFrame ==
  \/ post.pc = "apply" /\ post'.pc # "apply"
  \/ \E c \in Conns : rdPc[c] = "apply" /\ rdPc'[c] # "apply"

\* C35: the done channel of a sink is closed at most once: no application
\* of a frame closes a channel that is closed already (which would end the
\* process).
C35_DoneClosedOnce ==
  [][(AppliesFrame /\ ~panicked) => ~panicked']_vars

\* The prefix bytes a prefixedConn has still to replay.
ToReplay == IF calc.prefixRead THEN <<>> ELSE calc.prefix

\* C36: the reads of a prefixedConn return the peeked bytes and then the
\* socket's bytes: what has been returned so far, followed by what is still
\* to be replayed and what is still in the socket, is always the prefix
\* followed by the socket's bytes (every byte once, in order), and no single
\* read returns bytes of both.
C36_ReplayExact ==
  calc.fn = "prefixedConn"
    => /\ calc.got \o ToReplay \o calc.socket = calc.first
       /\ \A i, j \in 1..Len(calc.last) : calc.last[i][1] = calc.last[j][1]

C36_Witness ==
  /\ calc.fn = "prefixedConn"
  /\ calc.first = PeekedBytes(PeekedLen) \o SocketBytes(SocketLen)
  /\ calc.got = calc.first
  /\ calc.reads = MaxReads

\* C37: a frame read from the transport of one key leaves alone the sink of
\* a request that was dispatched to another key, even when it carries that
\* request's id: the response written so far, the completion signal and the
\* table entry stay as they are.
C37_ForeignFrameNotApplied ==
  [][\A c \in Conns, t \in Tasks :
       (/\ rdPc[c] = "apply" /\ rdPc'[c] = "read"
        /\ req[t].pc = "await"
        /\ rdMsg[c].id = req[t].requestID
        /\ connKey[c] # req[t].key)
       => /\ writers'[t] = writers[t]
          /\ done'[t] = done[t]
          /\ streamHandlers'[req[t].requestID] = streamHandlers[req[t].requestID]]_vars

\* A step in which a dispatch sends on an outbox that is closed, and a step
\* in which a waiting poll takes the absent frame of a closed and empty
\* outbox; either ends the process.
SendsOnClosed ==
  /\ ~panicked /\ panicked'
  /\ \E t \in Tasks : /\ req[t].pc = "dispatch" /\ req[t].httpClient # 0
                       /\ chanClosed[req[t].httpClient]
ReceivesAbsent ==
  /\ ~panicked /\ panicked'
  /\ \E q \in DOMAIN poll : /\ poll[q].pc = "wait" /\ chanClosed[poll[q].client]
                             /\ pollChan[poll[q].client] = <<>>

\* C38: a closed outbox is not used again: nothing is enqueued into it, no
\* dispatch sends on it, and no poll that waits on it takes a frame that was
\* not dispatched.
C38_ClosedOutboxUnused ==
  [][/\ \A c \in Clients : chanClosed[c] => Len(pollChan'[c]) <= Len(pollChan[c])
     /\ ~SendsOnClosed
     /\ ~ReceivesAbsent]_vars

\* The two halves of C38 on their own.
NoSendOnClosed == [][~SendsOnClosed]_vars
NoReceiveOfAbsent == [][~ReceivesAbsent]_vars

\* The sink of request t is in the pending table.
InTable(t) == \E r \in ReqIds : streamHandlers[r] = t

\* C39: a request that has been dispatched and awaits its response
\* eventually returns, and when it has returned its sink is not in the
\* pending table.
C39_DispatchedTerminates ==
  \A t \in Tasks :
    (req[t].pc = "await") ~> (req[t].pc = "returned" /\ ~InTable(t))

\* The safety half of C39: a handler that has returned has left no sink.
ReturnedLeftNoSink ==
  \A t \in Tasks : req[t].pc = "returned" => ~InTable(t)

\* A goroutine is inside a handler that has lock operations left.
Unfinished(th) == NextOp(th)[1] # "end"

====
